---- MODULE Spec2Model ----
(***************************************************************************)
(* encab: the per-program state handler (program_state.py), the execution  *)
(* task that drives it, and the orchestrator of helpers and main           *)
(* (programs.py).                                                          *)
(*                                                                         *)
(* Every "with self._cond:" block of the state handler is one atomic step. *)
(* A blocking wait on the condition is a step that is enabled when its     *)
(* predicate holds or, for a finite timeout, at any moment (the timeout    *)
(* expires).                                                               *)
(***************************************************************************)
EXTENDS Integers, Sequences, FiniteSets, TLC

\* ---------------------------------------------------------------- bounds
\* number of helper programs declared before main
NHelpers == 2
\* number of kill() calls the environment issues against one program
MaxKills == 2
\* number of timed waits of the orchestrator that expire in one execution
MaxTimeouts == 1
\* number of bytes a logged stream delivers before it ends
MaxBytes == 4
\* number of children of the supervisor in the process group of a launched child
NChildren == 2
\* number of execution contexts, the root context included
MaxContexts == 3
\* number of changes made in place to the environment of a context
MaxMutations == 1
\* number of extensions a configuration configures
NExtensions == 2
\* number of plugins registered with the plugin manager
NPlugins == 2

\* ------------------------------------------------------- ProgramState enum
INIT == 0
WAITING == 1
STARTING == 2
RUNNING == 3
CANCELING == 4
STOPPING == 5
CANCELED == 6
CRASHED == 7
STOPPED == 8
FAILED == 9
SUCCEEDED == 10

ProgramState == INIT..SUCCEEDED

\* signal numbers
SIGINT == 2
SIGTERM == 15

Signals == {SIGINT, SIGTERM}

\* programs: main and the helpers in declaration order 1..NHelpers
Main == 0
Helpers == 1..NHelpers
Progs == {Main} \cup Helpers

\* what the child does: "echo" exits by itself with code 0, "fail" exits by
\* itself with code 1, "sleep" runs until it is delivered a signal
Kinds == {"echo", "fail", "sleep"}

\* the callers of wait_for: wait_for_startup, join and join_wait
Waiters == {"wait_for_startup", "join", "join_wait"}

VARIABLES
    state,      \* ProgramStateHandler._state of each program
    hist,       \* the successive values of _state (history)
    pc,         \* position of the program's execution task
    hstate,     \* handle_exit's local copy of the state (state = self.get())
    process,    \* the child: "none" (no Popen yet), "alive", "exited"
    rc,         \* the child's return code once it exited
    recv,       \* the signals delivered to the child while it was alive
    sent,       \* the os.kill(pid, signal) calls made for the program
    events,     \* how often each observer callback of the task fired
    killed,     \* the kill() calls made so far
    delay,      \* startup_delay > 0 ?
    cmdok,      \* can the command be spawned ?
    kind,       \* behaviour of the child
    jw,         \* what the last join_wait call returned
    waited,     \* what the last wait_for_startup (in start) or join call returned
    opc,        \* orchestrator: position
    oi,         \* orchestrator: program it is working on
    op,         \* orchestrator: operation in progress
    startOrder, \* orchestrator: programs in the order start() was called
    stopOrder,  \* orchestrator: programs in the order they were sent a stop request
    startRet,   \* orchestrator: outcome of each start() call
    timeouts    \* orchestrator: number of timed waits that expired, up to MaxTimeouts

VARIABLES
    xpc,        \* execute_and_log: position
    streams,    \* execute_and_log: the log streams attached so far
    pclosed,    \* the log streams whose _closed event is set
    wclose,     \* execute_and_log: how wait_close returned for each log stream
    xcfg,       \* execute_and_log: can the command be spawned, is stdout logged,
                \* does the exec callback raise
    input,      \* log stream: the bytes the stream delivers until it ends
    pos,        \* log stream: number of bytes read so far
    records,    \* log stream: the records logged so far
    lpc,        \* log stream: position of the reading thread
    level,      \* log stream: log level of the stream
    boot,       \* encab(): position of the supervisor's main function
    bcfg,       \* encab(): what the environment makes of each of its steps
    cause,      \* encab(): what ended the supervisor process
    status,     \* encab(): exit status of the supervisor process, once it has one
    environ,    \* encab(): os.environ, the values of ENCAB_CONFIG and ENCAB_DRY_RUN
    encab_stream, \* encab(): is the configuration given as a stream
    files,      \* encab(): the default configuration files that exist
    location,   \* encab(): the file and the source load_config returned
    dry,        \* encab(): config.encab.dry_run, once the configuration is loaded
    exts,       \* encab(): config.extensions, once the configuration is loaded
    hooks,      \* encab(): the hook calls the plugins received so far
    did,        \* encab(): what encab() did to its process and to the programs
    program_configs, \* Programs(): the declared programs, in the order of their declaration
    args,       \* Programs(): the command line arguments
    programs,   \* Programs(): the main program and the helpers constructed, or the error
    heap,       \* ExecutionContext: the environment dictionaries, by object
    ctx,        \* ExecutionContext: the contexts created so far, the root context first
    mutated,    \* ExecutionContext: the contexts whose environment was changed in place, in turn
    called,     \* ExecutionContext: the last call of extend or spawn
    children,   \* reap loop: the wait status of each child of the supervisor in the process group of the launched child
    rpc,        \* reap loop: position of _wait_and_reap_zombies
    rret,       \* reap loop: what _wait_and_reap_zombies returned or raised
    reaped,     \* reap loop: the pids logged as reaped
    encab_config, \* Programs(): the EncabConfig given, if one is
    getuid,     \* os.getuid(), the user id of the supervisor
    extended,   \* config: a program configuration and the configuration it was extended by, after extend
    proc,       \* Process: the user, group and umask the process is created with
    ppc,        \* Process: how far execute and the child got
    praise,     \* Process: the exception execute raised
    preexec,    \* Process: the calls preexec_fn made in the child, in turn
    self_process, \* Process: self._process, the Popen object once there is one
    pidret,     \* Process: what the last call of pid() returned, and when
    oskill,     \* Process: the os.kill calls made by signal(), in turn
    wpc,        \* wait_for: where each caller of wait_for stands
    wret        \* wait_for: its last return, to whom and how

pvars == <<state, hist, pc, hstate, process, rc, recv, sent, events, killed, delay, cmdok, kind>>
ovars == <<opc, oi, op, startOrder, stopOrder, startRet, timeouts>>
vars == <<state, hist, pc, hstate, process, rc, recv, sent, events, killed, delay, cmdok, kind,
          jw, waited, opc, oi, op, startOrder, stopOrder, startRet, timeouts,
          xpc, streams, pclosed, wclose, xcfg, input, pos, records, lpc, level,
          boot, bcfg, cause, status, environ, encab_stream, files, location,
           dry, exts, hooks, did,
           program_configs, args, programs,
           heap, ctx, mutated, called,
           children, rpc, rret, reaped,
           encab_config, getuid, extended,
           proc, ppc, praise, preexec, self_process, pidret, oskill,
           wpc, wret>>

\* the state of one program and of the orchestrator
progvars == <<state, hist, pc, hstate, process, rc, recv, sent, events, killed, delay, cmdok, kind,
              jw, waited, opc, oi, op, startOrder, stopOrder, startRet, timeouts>>
\* the state of execute_and_log and of its log streams
evars == <<xpc, streams, pclosed, wclose, xcfg>>
\* the state of one log stream
lvars == <<input, pos, records, lpc, level>>
\* the state of the supervisor's main function
bvars == <<boot, bcfg, cause, status, environ, encab_stream, files, location,
           dry, exts, hooks, did>>
xvars == <<xpc, streams, pclosed, wclose, xcfg, input, pos, records, lpc, level,
           boot, bcfg, cause, status, environ, encab_stream, files, location,
           dry, exts, hooks, did,
           program_configs, args, programs,
           heap, ctx, mutated, called,
           children, rpc, rret, reaped,
           encab_config, getuid, extended,
           proc, ppc, praise, preexec, self_process, pidret, oskill,
           wpc, wret>>

\* the state of the configuration objects
gvars == <<encab_config, getuid, extended>>

\* no configuration is being used
InitUnconfigured ==
    /\ encab_config = <<>>
    /\ getuid = "0"
    /\ extended = <<>>

\* the state of a Process object and of its child
qvars == <<proc, ppc, praise, preexec, self_process, pidret, oskill>>

\* no Process object exists
InitNoProcess ==
    /\ proc = <<>>
    /\ ppc = "none"
    /\ praise = "none"
    /\ preexec = <<>>
    /\ self_process = <<>>
    /\ pidret = <<>>
    /\ oskill = <<>>

\* the threads blocked in wait_for on main's state handler
wvars == <<wpc, wret>>

\* no thread has called wait_for
InitNoWaiters ==
    /\ wpc = [w \in Waiters |-> "idle"]
    /\ wret = [caller |-> "none", ret |-> INIT, timed_out |-> FALSE]

\* the state of a construction of Programs, of the execution contexts and
\* of a reap loop
cvars == <<program_configs, args, programs,
          heap, ctx, mutated, called,
          children, rpc, rret, reaped>>

\* nothing is being constructed
InitUnbuilt ==
    /\ program_configs = <<>>
    /\ args = <<>>
    /\ programs = [main |-> <<>>, helpers |-> <<>>, built |-> "no"]
    /\ heap = <<>>
    /\ ctx = <<>>
    /\ mutated = <<>>
    /\ called = [op |-> "none"]
    /\ children = <<>>
    /\ rpc = "idle"
    /\ rret = [value |-> <<>>, raised |-> "none", nochild |-> FALSE]
    /\ reaped = {}
    /\ InitNoWaiters
    /\ InitNoProcess
    /\ InitUnconfigured

\* encab() is not running
InitBootIdle ==
    /\ boot = "idle"
    /\ bcfg = [load |-> "ok", dry_run |-> FALSE, set_user |-> "ok", has_main |-> TRUE,
               halt_on_exit |-> FALSE, main_rc |-> <<>>]
    /\ cause = "none"
    /\ status = <<>>
    /\ environ = [ENCAB_CONFIG |-> "unset", ENCAB_DRY_RUN |-> "unset"]
    /\ encab_stream = FALSE
    /\ files = {}
    /\ location = [file |-> "", source |-> ""]
    /\ dry = <<>>
    /\ exts = <<>>
    /\ hooks = <<>>
    /\ did = {}

\* the log streams of a child: stderr and stdout
LogStreams == {"stderr", "stdout"}

\* no process is being executed and no stream is being logged
InitX ==
    /\ xpc = "idle"
    /\ streams = <<>>
    /\ pclosed = {}
    /\ wclose = [l \in LogStreams |-> "none"]
    /\ xcfg = [ok |-> TRUE, log_stdout |-> TRUE, exec_raises |-> FALSE]
    /\ input = <<>>
    /\ pos = 0
    /\ records = <<>>
    /\ lpc = "idle"
    /\ level = "INFO"
    /\ InitBootIdle
    /\ InitUnbuilt

Callbacks == {"on_exit", "on_stopped", "on_crash", "on_cancel"}

\* ---------------------------------------------------- ProgramStateHandler

\* self._state = s under the lock, with notify_all; hist records the change
assign(p, s) ==
    /\ state' = [state EXCEPT ![p] = s]
    /\ hist' = [hist EXCEPT ![p] = IF s = state[p] THEN @ ELSE Append(@, s)]

\* ProgramStateHandler.set: unconditional assignment
set(p, s) == assign(p, s)

fire(p, cb) == events' = [events EXCEPT ![p][cb] = @ + 1]

\* wait_for_startup satisfied by every state from WAITING on, STARTING included
startup_reached_low(s) == s >= WAITING

\* predicate of wait_for_startup
startup_reached(s) == s = WAITING \/ s >= RUNNING

\* predicate of join
join_reached(s) == s = WAITING \/ s >= CANCELED

\* join_wait with the predicate one state too low (CANCELING counts as ended)
join_wait_reached_low(s) == s >= CANCELING

\* predicate of join_wait
join_wait_reached(s) == s >= CANCELED

\* canceled() with > for >=: CANCELING itself does not release the wait
canceled_strict(s) == s > CANCELING

\* predicate canceled() of wait
canceled(s) == s >= CANCELING

\* kill's early return with > for >=: CANCELED is not treated as ended
kill_ignored_strict(s) == s > CANCELED

\* kill: guard of the early return
kill_ignored(s) == s >= CANCELED

\* the record of one kill() call: the state it found, whether the task was
\* blocked in wait(startup_delay), whether the child was alive, the signal
kill_call(p, sig) ==
    [at |-> state[p], in_wait |-> pc[p] = "waiting", alive |-> process[p] = "alive", sig |-> sig]

\* kill that changes the state but never calls os.kill
kill_state_only(p, sig) ==
    /\ killed' = [killed EXCEPT ![p] = Append(@, kill_call(p, sig))]
    /\ IF kill_ignored(state[p])
       THEN UNCHANGED <<state, hist>>
       ELSE IF state[p] = WAITING
            THEN assign(p, CANCELING)
            ELSE assign(p, STOPPING)
    /\ UNCHANGED <<sent, recv>>
    /\ UNCHANGED <<pc, hstate, process, rc, events, delay, cmdok, kind>>

\* kill(process, signal), one critical section
kill(p, sig) ==
    /\ killed' = [killed EXCEPT ![p] = Append(@, kill_call(p, sig))]
    /\ IF kill_ignored(state[p])
       THEN UNCHANGED <<state, hist, sent, recv>>
       ELSE IF state[p] = WAITING
            THEN /\ assign(p, CANCELING)
                 /\ UNCHANGED <<sent, recv>>
            ELSE /\ assign(p, STOPPING)
                 /\ IF process[p] # "none"
                    THEN /\ sent' = [sent EXCEPT ![p] = Append(@, sig)]
                         /\ recv' = [recv EXCEPT ![p] = IF process[p] = "alive" THEN Append(@, sig) ELSE @]
                    ELSE UNCHANGED <<sent, recv>>
    /\ UNCHANGED <<pc, hstate, process, rc, events, delay, cmdok, kind>>

\* ------------------------------------------------------- execution task

\* Thread(target=self._run).start()
thread_start(p) ==
    /\ pc[p] = "init"
    /\ pc' = [pc EXCEPT ![p] = "wait"]
    /\ UNCHANGED <<state, hist, hstate, process, rc, recv, sent, events, killed, delay, cmdok, kind>>

\* wait entering WAITING whatever the timeout is
wait_always(p) ==
    /\ pc[p] = "wait"
    /\ IF state[p] >= STARTING
       THEN /\ pc' = [pc EXCEPT ![p] = "set_starting"]
            /\ UNCHANGED <<state, hist>>
       ELSE /\ assign(p, WAITING)
            /\ pc' = [pc EXCEPT ![p] = "waiting"]
    /\ UNCHANGED <<hstate, process, rc, recv, sent, events, killed, delay, cmdok, kind>>

\* wait(timeout): the critical section up to the timed wait on the condition
wait(p) ==
    /\ pc[p] = "wait"
    /\ IF ~delay[p] \/ state[p] >= STARTING
       THEN /\ pc' = [pc EXCEPT ![p] = "set_starting"]
            /\ UNCHANGED <<state, hist>>
       ELSE /\ assign(p, WAITING)
            /\ pc' = [pc EXCEPT ![p] = "waiting"]
    /\ UNCHANGED <<hstate, process, rc, recv, sent, events, killed, delay, cmdok, kind>>

\* wait(timeout): the timed wait returns, canceled or because the delay expired
wait_return(p) ==
    /\ pc[p] = "waiting"
    /\ pc' = [pc EXCEPT ![p] = IF canceled(state[p]) THEN "cancel" ELSE "set_starting"]
    /\ UNCHANGED <<state, hist, hstate, process, rc, recv, sent, events, killed, delay, cmdok, kind>>

\* self._state_handler.set(ProgramState.STARTING)
set_starting(p) ==
    /\ pc[p] = "set_starting"
    /\ set(p, STARTING)
    /\ pc' = [pc EXCEPT ![p] = "popen"]
    /\ UNCHANGED <<hstate, process, rc, recv, sent, events, killed, delay, cmdok, kind>>

\* self._process = Popen(self.command): the child is forked, or Popen raises
popen(p) ==
    /\ pc[p] = "popen"
    /\ IF cmdok[p]
       THEN /\ process' = [process EXCEPT ![p] = "alive"]
            /\ pc' = [pc EXCEPT ![p] = "set_running"]
       ELSE /\ pc' = [pc EXCEPT ![p] = "crash"]
            /\ UNCHANGED process
    /\ UNCHANGED <<state, hist, hstate, rc, recv, sent, events, killed, delay, cmdok, kind>>

\* self._state_handler.set(ProgramState.RUNNING)
set_running(p) ==
    /\ pc[p] = "set_running"
    /\ set(p, RUNNING)
    /\ pc' = [pc EXCEPT ![p] = "process_wait"]
    /\ UNCHANGED <<hstate, process, rc, recv, sent, events, killed, delay, cmdok, kind>>

\* the child terminates: by itself, or because it was delivered a signal
child_exit(p) ==
    /\ process[p] = "alive"
    /\ \/ /\ kind[p] # "sleep"
          /\ rc' = [rc EXCEPT ![p] = IF kind[p] = "echo" THEN 0 ELSE 1]
       \/ /\ recv[p] # <<>>
          /\ rc' = [rc EXCEPT ![p] = 0 - recv[p][1]]
    /\ process' = [process EXCEPT ![p] = "exited"]
    /\ UNCHANGED <<state, hist, pc, hstate, recv, sent, events, killed, delay, cmdok, kind>>

\* self._process.wait() returns
process_wait(p) ==
    /\ pc[p] = "process_wait"
    /\ process[p] = "exited"
    /\ pc' = [pc EXCEPT ![p] = "handle_exit"]
    /\ UNCHANGED <<state, hist, hstate, process, rc, recv, sent, events, killed, delay, cmdok, kind>>

\* handle_exit taking the success branch for every exit code
handle_exit_any_code(p) ==
    /\ pc[p] = "handle_exit"
    /\ fire(p, "on_exit")
    /\ set(p, SUCCEEDED)
    /\ pc' = [pc EXCEPT ![p] = "done"]
    /\ UNCHANGED hstate
    /\ UNCHANGED <<process, rc, recv, sent, killed, delay, cmdok, kind>>

\* handle_exit: exit code 0, or else state = self.get()
handle_exit(p) ==
    /\ pc[p] = "handle_exit"
    /\ IF rc[p] = 0
       THEN /\ fire(p, "on_exit")
            /\ set(p, SUCCEEDED)
            /\ pc' = [pc EXCEPT ![p] = "done"]
            /\ UNCHANGED hstate
       ELSE /\ hstate' = [hstate EXCEPT ![p] = state[p]]
            /\ pc' = [pc EXCEPT ![p] = "classify"]
            /\ UNCHANGED <<state, hist, events>>
    /\ UNCHANGED <<process, rc, recv, sent, killed, delay, cmdok, kind>>

\* handle_exit without the STOPPING branch: a stopped child counts as failed
handle_exit_classify_no_stopping(p) ==
    /\ pc[p] = "classify"
    /\ IF hstate[p] \in {RUNNING, STOPPING}
       THEN fire(p, "on_exit") /\ set(p, FAILED)
       ELSE fire(p, "on_crash") /\ set(p, CRASHED)
    /\ pc' = [pc EXCEPT ![p] = "done"]
    /\ UNCHANGED <<hstate, process, rc, recv, sent, killed, delay, cmdok, kind>>

\* handle_exit comparing the state read with >= RUNNING for == RUNNING
handle_exit_classify_ge(p) ==
    /\ pc[p] = "classify"
    /\ IF hstate[p] >= RUNNING
       THEN fire(p, "on_exit") /\ set(p, FAILED)
       ELSE IF hstate[p] = STOPPING
            THEN fire(p, "on_stopped") /\ set(p, STOPPED)
            ELSE fire(p, "on_crash") /\ set(p, CRASHED)
    /\ pc' = [pc EXCEPT ![p] = "done"]
    /\ UNCHANGED <<hstate, process, rc, recv, sent, killed, delay, cmdok, kind>>

\* handle_exit: the branch on the state read, its callback and its set
handle_exit_classify(p) ==
    /\ pc[p] = "classify"
    /\ IF hstate[p] = RUNNING
       THEN fire(p, "on_exit") /\ set(p, FAILED)
       ELSE IF hstate[p] = STOPPING
            THEN fire(p, "on_stopped") /\ set(p, STOPPED)
            ELSE fire(p, "on_crash") /\ set(p, CRASHED)
    /\ pc' = [pc EXCEPT ![p] = "done"]
    /\ UNCHANGED <<hstate, process, rc, recv, sent, killed, delay, cmdok, kind>>

\* except ProgramCanceledException: on_cancel(); set(CANCELED)
on_cancel(p) ==
    /\ pc[p] = "cancel"
    /\ fire(p, "on_cancel")
    /\ set(p, CANCELED)
    /\ pc' = [pc EXCEPT ![p] = "done"]
    /\ UNCHANGED <<hstate, process, rc, recv, sent, killed, delay, cmdok, kind>>

\* the crash handler reporting the failed spawn as a failed run
on_crash_as_failed(p) ==
    /\ pc[p] = "crash"
    /\ fire(p, "on_crash")
    /\ set(p, FAILED)
    /\ pc' = [pc EXCEPT ![p] = "done"]
    /\ UNCHANGED <<hstate, process, rc, recv, sent, killed, delay, cmdok, kind>>

\* except BaseException: on_crash(command, e); set(CRASHED)
on_crash(p) ==
    /\ pc[p] = "crash"
    /\ fire(p, "on_crash")
    /\ set(p, CRASHED)
    /\ pc' = [pc EXCEPT ![p] = "done"]
    /\ UNCHANGED <<hstate, process, rc, recv, sent, killed, delay, cmdok, kind>>

\* one step of the execution task of p, or of its child
run_step(p) ==
    \/ wait(p)
    \/ wait_return(p)
    \/ set_starting(p)
    \/ popen(p)
    \/ set_running(p)
    \/ child_exit(p)
    \/ process_wait(p)
    \/ handle_exit(p)
    \/ handle_exit_classify(p)
    \/ on_cancel(p)
    \/ on_crash(p)

\* ------------------------------------------------------------- observers

\* wait_for(condition, timeout) as called by join_wait: returns self._state
\* when the predicate holds, or when a finite timeout expires
join_wait(p, timed) ==
    /\ join_wait_reached(state[p]) \/ timed
    /\ jw' = [jw EXCEPT ![p] = [returned |-> TRUE, ret |-> state[p],
                                timed_out |-> ~join_wait_reached(state[p])]]
    /\ UNCHANGED waited
    /\ UNCHANGED pvars
    /\ UNCHANGED xvars
    /\ UNCHANGED ovars

\* start(timeout) returns what wait_for_startup(timeout) returns, once the
\* execution task has been launched
wait_for_startup(p, timed) ==
    /\ pc[p] # "init"
    /\ startup_reached(state[p]) \/ timed
    /\ waited' = [waited EXCEPT ![p] = [call |-> "start", ret |-> state[p],
                                        timed_out |-> ~startup_reached(state[p])]]
    /\ UNCHANGED pvars
    /\ UNCHANGED xvars
    /\ UNCHANGED ovars
    /\ UNCHANGED jw

\* join() / join(timeout)
join(p, timed) ==
    /\ join_reached(state[p]) \/ timed
    /\ waited' = [waited EXCEPT ![p] = [call |-> "join", ret |-> state[p],
                                        timed_out |-> ~join_reached(state[p])]]
    /\ UNCHANGED pvars
    /\ UNCHANGED xvars
    /\ UNCHANGED ovars
    /\ UNCHANGED jw

\* ------------------------------------------- one program and its callers

InitProgs ==
    /\ state = [p \in Progs |-> INIT]
    /\ hist = [p \in Progs |-> <<INIT>>]
    /\ pc = [p \in Progs |-> "init"]
    /\ hstate = [p \in Progs |-> INIT]
    /\ process = [p \in Progs |-> "none"]
    /\ rc = [p \in Progs |-> 0]
    /\ recv = [p \in Progs |-> <<>>]
    /\ sent = [p \in Progs |-> <<>>]
    /\ events = [p \in Progs |-> [cb \in Callbacks |-> 0]]
    /\ killed = [p \in Progs |-> <<>>]
    /\ jw = [p \in Progs |-> [returned |-> FALSE, ret |-> INIT, timed_out |-> FALSE]]
    /\ waited = [p \in Progs |-> [call |-> "none", ret |-> INIT, timed_out |-> FALSE]]

InitIdle ==
    /\ opc = "idle"
    /\ oi = Main
    /\ op = "none"
    /\ startOrder = <<>>
    /\ stopOrder = <<>>
    /\ startRet = [p \in Progs |-> "none"]
    /\ timeouts = 0

\* a single program (main) with any startup delay, command and child
Init ==
    /\ InitProgs
    /\ InitX
    /\ InitIdle
    /\ delay \in [Progs -> BOOLEAN]
    /\ cmdok \in [Progs -> BOOLEAN]
    /\ kind \in [Progs -> Kinds]
    /\ ~cmdok[Main] => kind[Main] = "sleep"
    /\ \A p \in Helpers : ~delay[p] /\ cmdok[p] /\ kind[p] = "sleep"

\* start(): the execution task is launched
Start ==
    /\ thread_start(Main)
    /\ UNCHANGED <<xvars, jw, waited>>
    /\ UNCHANGED ovars

\* a step of the execution task
Run ==
    /\ run_step(Main)
    /\ UNCHANGED <<xvars, jw, waited>>
    /\ UNCHANGED ovars

\* interrupt() / terminate() called from another thread
Kill ==
    /\ Len(killed[Main]) < MaxKills
    /\ \E sig \in Signals : kill(Main, sig)
    /\ UNCHANGED <<xvars, jw, waited>>
    /\ UNCHANGED ovars

\* join_wait() / join_wait(timeout) called from another thread
JoinWait == \E timed \in BOOLEAN : join_wait(Main, timed)

\* start() returns to its caller
StartReturn == \E timed \in BOOLEAN : wait_for_startup(Main, timed)

\* join() / join(timeout) called from another thread
Join == \E timed \in BOOLEAN : join(Main, timed)

Next == Start \/ Run \/ Kill \/ JoinWait \/ StartReturn \/ Join

Spec == Init /\ [][Next]_vars

\* --------------------------------------- wait_for and the condition variable

\* the predicate each caller hands to wait_for
condition(w, s) ==
    CASE w = "wait_for_startup" -> startup_reached(s)
      [] w = "join" -> join_reached(s)
      [] w = "join_wait" -> join_wait_reached(s)

\* Condition.notify: one of the threads waiting on the condition is woken
notify ==
    /\ IF \E w \in Waiters : wpc[w] = "blocked"
       THEN \E w \in Waiters : wpc[w] = "blocked" /\ wpc' = [wpc EXCEPT ![w] = "notified"]
       ELSE UNCHANGED wpc
    /\ UNCHANGED wret

\* self._cond.notify_all(): every thread waiting on the condition is woken
notify_all ==
    /\ wpc' = [w \in Waiters |-> IF wpc[w] = "blocked" THEN "notified" ELSE wpc[w]]
    /\ UNCHANGED wret

\* Condition.wait_for with the lock held: the predicate is evaluated on
\* self._state; when it holds, or when the timeout is over, wait_for returns
\* self._state, and else the thread waits on the condition
wait_for(w, over) ==
    IF condition(w, state[Main]) \/ over
    THEN /\ wpc' = [wpc EXCEPT ![w] = "returned"]
         /\ wret' = [caller |-> w, ret |-> state[Main],
                     timed_out |-> ~condition(w, state[Main])]
    ELSE /\ wpc' = [wpc EXCEPT ![w] = "blocked"]
         /\ UNCHANGED wret

\* what the callers of wait_for leave alone
wframe == <<pvars, jw, waited, ovars, evars, lvars, bvars, cvars, gvars, qvars>>

\* a thread calls wait_for_startup (from start(), once the execution task
\* is launched), join or join_wait and takes the lock
wait_for_call(w) ==
    /\ wpc[w] = "idle"
    /\ w = "wait_for_startup" => pc[Main] # "init"
    /\ wait_for(w, FALSE)
    /\ UNCHANGED wframe

\* a woken thread has the lock again and evaluates its predicate
wait_for_woken(w) ==
    /\ wpc[w] = "notified"
    /\ wait_for(w, FALSE)
    /\ UNCHANGED wframe

\* the timeout of a waiting thread is over; it evaluates its predicate a
\* last time
wait_for_timeout(w) ==
    /\ wpc[w] \in {"blocked", "notified"}
    /\ wait_for(w, TRUE)
    /\ UNCHANGED wframe

\* what the execution task and kill() leave alone
pframe == <<jw, waited, ovars, evars, lvars, bvars, cvars, gvars, qvars>>

\* start(): the execution task is launched
WStart ==
    /\ thread_start(Main)
    /\ UNCHANGED <<wvars, pframe>>

\* a step of the execution task; set() and wait() call notify_all in the
\* critical section in which they change the state
WRun ==
    /\ run_step(Main)
    /\ IF state'[Main] # state[Main] THEN notify_all ELSE UNCHANGED wvars
    /\ UNCHANGED pframe

\* terminate() called from another thread; kill() calls notify_all unless
\* it returns early
WKill ==
    /\ Len(killed[Main]) < MaxKills
    /\ kill(Main, SIGTERM)
    /\ IF state'[Main] # state[Main] THEN notify_all ELSE UNCHANGED wvars
    /\ UNCHANGED pframe

NextWaiters ==
    \/ WStart
    \/ WRun
    \/ WKill
    \/ \E w \in Waiters : wait_for_call(w)
    \/ \E w \in Waiters : wait_for_woken(w)
    \/ \E w \in Waiters : wait_for_timeout(w)

\* main with or without a startup delay, and a child that runs until it is
\* signalled or that fails by itself
InitWaiters ==
    /\ Init
    /\ cmdok[Main]
    /\ kind[Main] \in {"sleep", "fail"}

SpecWaiters == InitWaiters /\ [][NextWaiters]_vars

\* every thread that can run does run: a woken waiter takes the lock again,
\* and the execution task goes on
WaiterScheduling ==
    /\ \A w \in Waiters : WF_vars(wait_for_woken(w))
    /\ WF_vars(WRun)

FairSpecWaiters == InitWaiters /\ [][NextWaiters]_vars /\ WaiterScheduling

\* ------------------------------------------------------------- Programs

\* self.helpers: the helpers in declaration order
helpers == [i \in 1..NHelpers |-> i]

\* reversed(seq)
reversed(seq) == [i \in 1..Len(seq) |-> seq[Len(seq) + 1 - i]]

\* stop_helpers without reversed(): the helpers in declaration order
stop_sequence_forward == helpers

\* the order in which stop_helpers handles the helpers: reversed(self.helpers)
stop_sequence == reversed(helpers)

\* position of p in a sequence without repetitions
index_of(seq, p) == CHOOSE i \in 1..Len(seq) : seq[i] = p

\* the sequence of programs a for loop over seq visits, continued after p
is_last(seq, p) == index_of(seq, p) = Len(seq)
following(seq, p) == seq[index_of(seq, p) + 1]

\* the caller giving up once start() of a program returned CRASHED: the
\* helpers are stopped and nothing else is started
after_start_stop_on_crash(p) ==
    IF state[p] = CRASHED
    THEN /\ opc' = "terminate"
         /\ oi' = stop_sequence[1]
    ELSE IF p = Main
    THEN /\ opc' = (IF op = "run" THEN "join_wait" ELSE "started")
         /\ oi' = Main
    ELSE /\ opc' = "start"
         /\ oi' = (IF is_last(helpers, p) THEN Main ELSE following(helpers, p))

\* run() without main.join_wait(): the helpers are stopped once main started
after_start_no_join_wait(p) ==
    IF p = Main
    THEN /\ opc' = (IF op = "run" THEN "terminate" ELSE "started")
         /\ oi' = (IF op = "run" THEN stop_sequence[1] ELSE Main)
    ELSE /\ opc' = "start"
         /\ oi' = (IF is_last(helpers, p) THEN Main ELSE following(helpers, p))

\* where the caller goes once start() of program p has returned: the next
\* helper of start_helpers, then main, then join_wait (run) or the return of
\* start()
after_start(p) ==
    IF p = Main
    THEN /\ opc' = (IF op = "run" THEN "join_wait" ELSE "started")
         /\ oi' = Main
    ELSE /\ opc' = "start"
         /\ oi' = (IF is_last(helpers, p) THEN Main ELSE following(helpers, p))

\* one more join(join_time) timed out: the timeouts are counted up to
\* MaxTimeouts, and a join with a timeout can always time out
expired(n) == IF n < MaxTimeouts THEN n + 1 ELSE n

\* start(timeout): the execution task of the next program is launched
o_start ==
    /\ opc = "start"
    /\ thread_start(oi)
    /\ startOrder' = Append(startOrder, oi)
    /\ opc' = "startup"
    /\ UNCHANGED <<xvars, jw, waited, oi, op, stopOrder, startRet, timeouts>>

\* start(timeout): wait_for_startup(timeout) returns, the predicate met or
\* the timeout expired
o_startup ==
    /\ opc = "startup"
    /\ IF startup_reached(state[oi])
       THEN /\ startRet' = [startRet EXCEPT ![oi] = "reached"]
            /\ UNCHANGED timeouts
       ELSE /\ timeouts < MaxTimeouts
            /\ startRet' = [startRet EXCEPT ![oi] = "timeout"]
            /\ timeouts' = timeouts + 1
    /\ after_start(oi)
    /\ UNCHANGED pvars
    /\ UNCHANGED <<xvars, jw, waited, op, startOrder, stopOrder>>

\* run(): self.main.join_wait() returns
o_join_wait ==
    /\ opc = "join_wait"
    /\ join_wait_reached(state[Main])
    /\ jw' = [jw EXCEPT ![Main] = [returned |-> TRUE, ret |-> state[Main], timed_out |-> FALSE]]
    /\ UNCHANGED waited
    /\ opc' = "terminate"
    /\ oi' = stop_sequence[1]
    /\ UNCHANGED pvars
    /\ UNCHANGED xvars
    /\ UNCHANGED <<op, startOrder, stopOrder, startRet, timeouts>>

\* terminate() / interrupt() is called once start() has returned
o_stop_call ==
    /\ opc = "started"
    /\ \E o \in {"terminate", "interrupt"} : op' = o
    /\ opc' = "kill_main"
    /\ UNCHANGED pvars
    /\ UNCHANGED <<xvars, jw, waited, oi, startOrder, stopOrder, startRet, timeouts>>

\* interrupt() sending what terminate() sends
main_signal_term(o) == SIGTERM

\* the signal terminate() resp. interrupt() has main sent
main_signal(o) == IF o = "interrupt" THEN SIGINT ELSE SIGTERM

\* the signal stop_helpers has every helper sent: helper.terminate()
helper_signal(o) == SIGTERM

\* terminate(): self.main.terminate(); interrupt(): self.main.interrupt()
o_kill_main ==
    /\ opc = "kill_main"
    /\ kill(Main, main_signal(op))
    /\ stopOrder' = Append(stopOrder, Main)
    /\ opc' = "terminate"
    /\ oi' = stop_sequence[1]
    /\ UNCHANGED <<xvars, jw, waited, op, startOrder, startRet, timeouts>>

\* stop_helpers joining each helper right after its terminate(): one loop
o_terminate_then_join ==
    /\ opc = "terminate"
    /\ kill(oi, helper_signal(op))
    /\ stopOrder' = Append(stopOrder, oi)
    /\ opc' = "join"
    /\ oi' = stop_sequence[1]
    /\ UNCHANGED <<xvars, jw, waited, op, startOrder, startRet, timeouts>>

\* stop_helpers, first loop: helper.terminate() in reversed order
o_terminate ==
    /\ opc = "terminate"
    /\ kill(oi, helper_signal(op))
    /\ stopOrder' = Append(stopOrder, oi)
    /\ IF is_last(stop_sequence, oi)
       THEN opc' = "join" /\ oi' = stop_sequence[1]
       ELSE opc' = "terminate" /\ oi' = following(stop_sequence, oi)
    /\ UNCHANGED <<xvars, jw, waited, op, startOrder, startRet, timeouts>>

\* stop_helpers joining without a timeout: join() returns only once the
\* helper reached the state join waits for
o_join_untimed ==
    /\ opc = "join"
    /\ join_reached(state[oi])
    /\ IF is_last(stop_sequence, oi)
       THEN opc' = "done" /\ oi' = Main
       ELSE opc' = "join" /\ oi' = following(stop_sequence, oi)
    /\ UNCHANGED pvars
    /\ UNCHANGED <<xvars, jw, waited, op, startOrder, stopOrder, startRet, timeouts>>

\* stop_helpers, second loop: helper.join(join_time) returns, the predicate
\* met or the timeout (join_time, which is finite) expired
o_join ==
    /\ opc = "join"
    /\ IF join_reached(state[oi])
       THEN UNCHANGED timeouts
       ELSE timeouts' = expired(timeouts)
    /\ IF is_last(stop_sequence, oi)
       THEN opc' = "done" /\ oi' = Main
       ELSE opc' = "join" /\ oi' = following(stop_sequence, oi)
    /\ UNCHANGED pvars
    /\ UNCHANGED <<xvars, jw, waited, op, startOrder, stopOrder, startRet>>

\* a step of the execution task of program p
o_run_of(p) ==
    /\ run_step(p)
    /\ UNCHANGED <<xvars, jw, waited>>
    /\ UNCHANGED ovars

\* a step of some program's execution task
o_run == \E p \in Progs : o_run_of(p)

\* helpers are long-running programs, or commands that cannot be spawned (a
\* child that never exists has no kind)
HelperConfigs ==
    { c \in [delay : BOOLEAN, cmdok : BOOLEAN, kind : {"sleep"}] : ~c.cmdok => ~c.delay }

\* main as run() needs it: a command that ends by itself, or cannot be spawned
RunMainConfigs ==
    { c \in [delay : BOOLEAN, cmdok : BOOLEAN, kind : {"echo", "fail"}] :
        ~c.cmdok => (~c.delay /\ c.kind = "echo") }

\* main as terminate() and interrupt() are tried on: long-running
StopMainConfigs == [delay : {FALSE}, cmdok : {TRUE}, kind : {"sleep"}]

\* the programs that are tried with a startup delay: main and the first helper
Delayable == {Main, 1}

Configured(mainConfigs, helperConfigs) ==
    \E cfg \in [Progs -> helperConfigs \cup mainConfigs] :
        /\ cfg[Main] \in mainConfigs
        /\ \A p \in Helpers : cfg[p] \in helperConfigs
        /\ \A p \in Progs : cfg[p].delay => p \in Delayable
        /\ delay = [p \in Progs |-> cfg[p].delay]
        /\ cmdok = [p \in Progs |-> cfg[p].cmdok]
        /\ kind = [p \in Progs |-> cfg[p].kind]

InitOrchestrator(o) ==
    /\ opc = "start"
    /\ oi = helpers[1]
    /\ op = o
    /\ startOrder = <<>>
    /\ stopOrder = <<>>
    /\ startRet = [p \in Progs |-> "none"]
    /\ timeouts = 0

\* Programs.run()
InitRun ==
    /\ InitProgs
    /\ InitX
    /\ InitOrchestrator("run")
    /\ Configured(RunMainConfigs, HelperConfigs)

NextRun == o_run \/ o_start \/ o_startup \/ o_join_wait \/ o_terminate \/ o_join

SpecRun == InitRun /\ [][NextRun]_vars

\* Programs.start() followed by Programs.terminate() or Programs.interrupt()
InitStop ==
    /\ InitProgs
    /\ InitX
    /\ InitOrchestrator("start")
    /\ Configured(StopMainConfigs, HelperConfigs)

NextStop == o_run \/ o_start \/ o_startup \/ o_stop_call \/ o_kill_main \/ o_terminate \/ o_join

SpecStop == InitStop /\ [][NextStop]_vars

\* Programs.start() of long-running programs that can all be spawned, then
\* Programs.terminate() or Programs.interrupt(); every thread that can take
\* a step eventually takes it, and so does every child that was delivered a
\* signal
InitStopRunning ==
    /\ InitProgs
    /\ InitX
    /\ InitOrchestrator("start")
    /\ Configured(StopMainConfigs, {c \in HelperConfigs : c.cmdok})

Scheduling ==
    /\ \A p \in Progs : WF_vars(o_run_of(p))
    /\ WF_vars(o_start)
    /\ WF_vars(o_startup)
    /\ WF_vars(o_kill_main)
    /\ WF_vars(o_terminate)
    /\ WF_vars(o_join)

FairSpecStop == InitStopRunning /\ [][NextStop]_vars /\ Scheduling

\* Programs.start(), then Programs.terminate() or Programs.interrupt(): only
\* the calling thread is sure to take its steps; a program's execution task
\* or its child may never take another
CallerScheduling ==
    /\ WF_vars(o_kill_main)
    /\ WF_vars(o_terminate)
    /\ WF_vars(o_join)

FairSpecAbandon == InitStop /\ [][NextStop]_vars /\ CallerScheduling

\* ProgramStateHandler.handle_exit called on its own: in any state, with any
\* exit code, and no other thread
ExitCodes == {0 - SIGTERM, 0 - SIGINT, 0, 1, 2}

InitHandleExit ==
    /\ InitIdle
    /\ InitX
    /\ state \in [Progs -> ProgramState]
    /\ \A h \in Helpers : state[h] = INIT
    /\ hist = [p \in Progs |-> <<state[p]>>]
    /\ pc = [p \in Progs |-> IF p = Main THEN "handle_exit" ELSE "init"]
    /\ hstate = [p \in Progs |-> INIT]
    /\ process = [p \in Progs |-> IF p = Main THEN "exited" ELSE "none"]
    /\ rc \in [Progs -> ExitCodes]
    /\ \A h \in Helpers : rc[h] = 0
    /\ recv = [p \in Progs |-> <<>>]
    /\ sent = [p \in Progs |-> <<>>]
    /\ events = [p \in Progs |-> [cb \in Callbacks |-> 0]]
    /\ killed = [p \in Progs |-> <<>>]
    /\ jw = [p \in Progs |-> [returned |-> FALSE, ret |-> INIT, timed_out |-> FALSE]]
    /\ waited = [p \in Progs |-> [call |-> "none", ret |-> INIT, timed_out |-> FALSE]]
    /\ delay = [p \in Progs |-> FALSE]
    /\ cmdok = [p \in Progs |-> TRUE]
    /\ kind = [p \in Progs |-> "sleep"]

HandleExit ==
    /\ handle_exit(Main)
    /\ UNCHANGED <<xvars, jw, waited>>
    /\ UNCHANGED ovars

HandleExitClassify ==
    /\ handle_exit_classify(Main)
    /\ UNCHANGED <<xvars, jw, waited>>
    /\ UNCHANGED ovars

NextHandleExit == HandleExit \/ HandleExitClassify

SpecHandleExit == InitHandleExit /\ [][NextHandleExit]_vars

\* ------------------------------------------- Process.execute_and_log

\* execute: Popen(...) succeeds and outer_exec is called with the process, or
\* it raises (as does the passwd lookup before it)
e_popen ==
    /\ xpc = "popen"
    /\ xpc' = IF xcfg.ok THEN "attach_stderr" ELSE "finally"
    /\ UNCHANGED <<streams, pclosed, wclose, xcfg>>

\* outer_exec: streams.append(LogStream(logger, ERROR, process.stderr, extra).start())
e_attach_stderr ==
    /\ xpc = "attach_stderr"
    /\ streams' = Append(streams, "stderr")
    /\ xpc' = IF xcfg.log_stdout THEN "attach_stdout" ELSE "exec"
    /\ UNCHANGED <<pclosed, wclose, xcfg>>

\* outer_exec: streams.append(LogStream(logger, INFO, process.stdout, extra).start())
e_attach_stdout ==
    /\ xpc = "attach_stdout"
    /\ streams' = Append(streams, "stdout")
    /\ xpc' = "exec"
    /\ UNCHANGED <<pclosed, wclose, xcfg>>

\* outer_exec with the exception of exec(process) leaving execute_and_log
\* without passing through the finally clause
e_exec_unprotected ==
    /\ xpc = "exec"
    /\ xpc' = IF xcfg.exec_raises THEN "raised" ELSE "wait"
    /\ UNCHANGED <<streams, pclosed, wclose, xcfg>>

\* outer_exec: exec(process), the caller's callback, which may raise
e_exec ==
    /\ xpc = "exec"
    /\ xpc' = IF xcfg.exec_raises THEN "finally" ELSE "wait"
    /\ UNCHANGED <<streams, pclosed, wclose, xcfg>>

\* execute: self._process.wait() returns
e_wait ==
    /\ xpc = "wait"
    /\ xpc' = "finally"
    /\ UNCHANGED <<streams, pclosed, wclose, xcfg>>

\* LogStream._run ends: self.stream.close(); self._closed.set()
log_stream_closed(l) ==
    /\ \E i \in 1..Len(streams) : streams[i] = l
    /\ l \notin pclosed
    /\ pclosed' = pclosed \cup {l}
    /\ UNCHANGED <<xpc, streams, wclose, xcfg>>

\* LogStream.wait_close: without a thread (start was never called) nothing
\* is waited for; else self._closed.wait(wait_time) returns because the
\* event is set or because the wait time is over
wait_close(l, timed) ==
    IF \A i \in 1..Len(streams) : streams[i] # l
    THEN wclose' = [wclose EXCEPT ![l] = "unstarted"]
    ELSE /\ l \in pclosed \/ timed
         /\ wclose' = [wclose EXCEPT ![l] = IF l \in pclosed THEN "closed" ELSE "timeout"]

\* the streams the finally clause has not waited for yet
not_waited == SelectSeq(streams, LAMBDA l : wclose[l] = "none")

\* finally: for stream in streams: stream.wait_close()
e_wait_close ==
    /\ xpc = "finally"
    /\ not_waited # <<>>
    /\ \E timed \in BOOLEAN : wait_close(not_waited[1], timed)
    /\ UNCHANGED <<xpc, streams, pclosed, xcfg>>

\* execute_and_log returns the exit code, or the exception propagates
e_return ==
    /\ xpc = "finally"
    /\ not_waited = <<>>
    /\ xpc' = IF xcfg.ok /\ ~xcfg.exec_raises THEN "returned" ELSE "raised"
    /\ UNCHANGED <<streams, pclosed, wclose, xcfg>>

InitExec ==
    /\ InitProgs
    /\ InitIdle
    /\ delay = [p \in Progs |-> FALSE]
    /\ cmdok = [p \in Progs |-> TRUE]
    /\ kind = [p \in Progs |-> "sleep"]
    /\ xpc = "popen"
    /\ streams = <<>>
    /\ pclosed = {}
    /\ wclose = [l \in LogStreams |-> "none"]
    /\ xcfg \in [ok : BOOLEAN, log_stdout : BOOLEAN, exec_raises : BOOLEAN]
    /\ input = <<>>
    /\ pos = 0
    /\ records = <<>>
    /\ lpc = "idle"
    /\ level = "INFO"
    /\ InitBootIdle
    /\ InitUnbuilt

NextExec ==
    \/ (e_popen /\ UNCHANGED <<progvars, wvars, qvars, gvars, lvars, bvars, cvars>>)
    \/ (e_attach_stderr /\ UNCHANGED <<progvars, wvars, qvars, gvars, lvars, bvars, cvars>>)
    \/ (e_attach_stdout /\ UNCHANGED <<progvars, wvars, qvars, gvars, lvars, bvars, cvars>>)
    \/ (e_exec /\ UNCHANGED <<progvars, wvars, qvars, gvars, lvars, bvars, cvars>>)
    \/ (e_wait /\ UNCHANGED <<progvars, wvars, qvars, gvars, lvars, bvars, cvars>>)
    \/ (e_wait_close /\ UNCHANGED <<progvars, wvars, qvars, gvars, lvars, bvars, cvars>>)
    \/ (e_return /\ UNCHANGED <<progvars, wvars, qvars, gvars, lvars, bvars, cvars>>)
    \/ (\E l \in LogStreams : log_stream_closed(l) /\ UNCHANGED <<progvars, wvars, qvars, gvars, lvars, bvars, cvars>>)

SpecExec == InitExec /\ [][NextExec]_vars

\* ------------------------------------------------------ LogStream._run

\* the bytes of a logged stream: a letter, the four bytes rstrip removes, and
\* a byte that is no valid UTF-8 (the default encoding)
Bytes == {"a", "SP", "TAB", "CR", "LF", "xFF"}

Stripped == {"CR", "LF", "TAB", "SP"}

\* iterating the binary stream: the next line is everything up to and
\* including the next LF, or up to the end of the stream
ReadLine(bytes, p) ==
    LET lfs == {i \in (p + 1)..Len(bytes) : bytes[i] = "LF"}
        end == IF lfs = {} THEN Len(bytes)
               ELSE CHOOSE i \in lfs : \A j \in lfs : i <= j
    IN SubSeq(bytes, p + 1, end)

\* line.decode(sys.getdefaultencoding()) raises UnicodeDecodeError
undecodable(line) == \E i \in 1..Len(line) : line[i] = "xFF"

\* line.decode(...) of a valid line: one character per (ASCII) byte
decode(line) == [i \in 1..Len(line) |-> line[i]]

RECURSIVE rstrip(_)
\* str.rstrip("\r\n\t ")
rstrip(str) ==
    IF str # <<>> /\ str[Len(str)] \in Stripped
    THEN rstrip(SubSeq(str, 1, Len(str) - 1))
    ELSE str

\* one turn of the loop: the line is decoded, stripped and logged; a
\* UnicodeDecodeError is a ValueError and is caught by "except ValueError: pass"
pump_line ==
    /\ lpc = "reading"
    /\ pos < Len(input)
    /\ LET line == ReadLine(input, pos)
       IN /\ pos' = pos + Len(line)
          /\ IF undecodable(line)
             THEN /\ lpc' = "closing"
                  /\ UNCHANGED records
             ELSE /\ records' = Append(records, [level |-> level, msg |-> rstrip(decode(line))])
                  /\ UNCHANGED lpc
    /\ UNCHANGED <<input, level>>

\* the stream is at its end: the loop is left
pump_eof ==
    /\ lpc = "reading"
    /\ pos = Len(input)
    /\ lpc' = "closing"
    /\ UNCHANGED <<input, pos, records, level>>

\* reading raises OSError: the handler's logger.exception call evaluates
\* self.name, which LogStream does not have, and the thread dies
pump_io_error ==
    /\ lpc = "reading"
    /\ lpc' = "failing"
    /\ UNCHANGED <<input, pos, records, level>>

\* finally: self.stream.close(); self._closed.set()
pump_finally ==
    /\ lpc \in {"closing", "failing"}
    /\ lpc' = IF lpc = "closing" THEN "closed" ELSE "died"
    /\ UNCHANGED <<input, pos, records, level>>

\* all byte sequences of at most n bytes
BoundedSeq(S, n) == UNION {[1..m -> S] : m \in 0..n}

InitPump ==
    /\ InitProgs
    /\ InitIdle
    /\ delay = [p \in Progs |-> FALSE]
    /\ cmdok = [p \in Progs |-> TRUE]
    /\ kind = [p \in Progs |-> "sleep"]
    /\ xpc = "idle"
    /\ streams = <<>>
    /\ pclosed = {}
    /\ wclose = [l \in LogStreams |-> "none"]
    /\ xcfg = [ok |-> TRUE, log_stdout |-> TRUE, exec_raises |-> FALSE]
    /\ input \in BoundedSeq(Bytes, MaxBytes)
    /\ pos = 0
    /\ records = <<>>
    /\ lpc = "reading"
    /\ level \in {"ERROR", "INFO"}
    /\ InitBootIdle
    /\ InitUnbuilt

NextPump ==
    \/ (pump_line /\ UNCHANGED <<progvars, wvars, qvars, gvars, evars, bvars, cvars>>)
    \/ (pump_eof /\ UNCHANGED <<progvars, wvars, qvars, gvars, evars, bvars, cvars>>)
    \/ (pump_io_error /\ UNCHANGED <<progvars, wvars, qvars, gvars, evars, bvars, cvars>>)
    \/ (pump_finally /\ UNCHANGED <<progvars, wvars, qvars, gvars, evars, bvars, cvars>>)

SpecPump == InitPump /\ [][NextPump]_vars

\* ------------------------------------- LogStream: start, _run, wait_close

\* what logger.exception logs for an exception the loop does not expect
SomethingWentWrong == <<"Something went wrong while logging">>

\* LogStream.start: the thread is created, kept in self.thread and started
log_start ==
    /\ lpc = "idle"
    /\ lpc' = "reading"
    /\ streams' = Append(streams, "stderr")
    /\ UNCHANGED <<input, pos, records, level, xpc, pclosed, wclose, xcfg>>

\* the stream object was closed by someone else: iterating it raises
\* ValueError, caught by "except ValueError: pass  # stream was closed"
pump_stream_closed ==
    /\ lpc = "reading"
    /\ lpc' = "closing"
    /\ UNCHANGED <<input, pos, records, level>>

\* handling a line raises something else (a logging filter, say): the bare
\* except logs the exception and raises it again, and the thread dies
pump_unexpected ==
    /\ lpc = "reading"
    /\ pos < Len(input)
    /\ pos' = pos + Len(ReadLine(input, pos))
    /\ records' = Append(records, [level |-> "ERROR", msg |-> SomethingWentWrong])
    /\ lpc' = "failing"
    /\ UNCHANGED <<input, level>>

\* _run's finally clause for the started stream: the stream is closed and
\* the _closed event is set
run_finally == pump_finally /\ log_stream_closed("stderr")

\* a caller's wait_close() on the stream, at any moment
call_wait_close ==
    /\ wclose["stderr"] = "none"
    /\ \E timed \in BOOLEAN : wait_close("stderr", timed)
    /\ UNCHANGED <<xpc, streams, pclosed, xcfg>>

InitLogStream ==
    /\ InitProgs
    /\ InitIdle
    /\ delay = [p \in Progs |-> FALSE]
    /\ cmdok = [p \in Progs |-> TRUE]
    /\ kind = [p \in Progs |-> "sleep"]
    /\ xpc = "idle"
    /\ streams = <<>>
    /\ pclosed = {}
    /\ wclose = [l \in LogStreams |-> "none"]
    /\ xcfg = [ok |-> TRUE, log_stdout |-> FALSE, exec_raises |-> FALSE]
    /\ input \in BoundedSeq(Bytes, MaxBytes)
    /\ pos = 0
    /\ records = <<>>
    /\ lpc = "idle"
    /\ level \in {"ERROR", "INFO"}
    /\ InitBootIdle
    /\ InitUnbuilt

NextLogStream ==
    \/ (log_start /\ UNCHANGED <<progvars, wvars, qvars, gvars, bvars, cvars>>)
    \/ (pump_line /\ UNCHANGED <<progvars, wvars, qvars, gvars, evars, bvars, cvars>>)
    \/ (pump_eof /\ UNCHANGED <<progvars, wvars, qvars, gvars, evars, bvars, cvars>>)
    \/ (pump_stream_closed /\ UNCHANGED <<progvars, wvars, qvars, gvars, evars, bvars, cvars>>)
    \/ (pump_io_error /\ UNCHANGED <<progvars, wvars, qvars, gvars, evars, bvars, cvars>>)
    \/ (pump_unexpected /\ UNCHANGED <<progvars, wvars, qvars, gvars, evars, bvars, cvars>>)
    \/ (run_finally /\ UNCHANGED <<progvars, wvars, qvars, gvars, bvars, cvars>>)
    \/ (call_wait_close /\ UNCHANGED <<progvars, wvars, qvars, gvars, lvars, bvars, cvars>>)

SpecLogStream == InitLogStream /\ [][NextLogStream]_vars

\* ------------------------------------------------------------ encab()

\* common/exit_codes.py
EX_OK == 0
EX_OSERR == 71
EX_IOERR == 74
EX_NOPERM == 77
EX_CONFIG == 78
EX_NOCHILD == EX_OSERR
EX_UNKNOWN_RC == EX_OSERR
EX_IOERROR == EX_IOERR
EX_CONFIG_ERROR == EX_CONFIG
EX_INSUFFICIENT_PERMISSIONS == EX_NOPERM
EX_INTERRUPTED == EX_OK
EX_TERMINATED == EX_OK

\* the exceptions the steps of encab() raise, and their base classes
Exceptions == {"PermissionError", "FileNotFoundError", "ValueError", "ConfigError",
               "KeyboardInterrupt"}

is_a(exc, class) ==
    \/ exc = class
    \/ class = "IOError" /\ exc \in {"PermissionError", "FileNotFoundError"}
    \/ class = "ValueError" /\ exc = "ConfigError"

\* exit(n): the exit status of the process is the low byte of n
exit_status(n) == n % 256

\* the except clauses with IOError tried before PermissionError
handler_code_io_first(exc) ==
    IF is_a(exc, "IOError") THEN EX_IOERROR
    ELSE IF is_a(exc, "PermissionError") THEN EX_INSUFFICIENT_PERMISSIONS
    ELSE IF is_a(exc, "ValueError") THEN EX_CONFIG_ERROR
    ELSE EX_OK

\* the except clauses of encab(), in their order
handler_code(exc) ==
    IF is_a(exc, "PermissionError") THEN EX_INSUFFICIENT_PERMISSIONS
    ELSE IF is_a(exc, "IOError") THEN EX_IOERROR
    ELSE IF is_a(exc, "ValueError") THEN EX_CONFIG_ERROR
    ELSE EX_OK

\* exit(code), called directly or by a handler
exits(why, code) ==
    /\ boot' = "exited"
    /\ cause' = why
    /\ status' = <<exit_status(code)>>
    /\ UNCHANGED <<bcfg, environ, encab_stream, files>>

\* the step at position at either goes on to position to, or raises
step(at, outcome, to) ==
    /\ boot = at
    /\ IF outcome = "ok"
       THEN /\ boot' = to
            /\ UNCHANGED <<bcfg, environ, encab_stream, files, cause, status>>
       ELSE exits(outcome, handler_code(outcome))

\* the values of the environment variable ENCAB_DRY_RUN: not set, empty,
\* "1", "0", anything else
DryRunValues == {"unset", "", "1", "0", "x"}

\* load_config: what ENCAB_DRY_RUN makes of config.encab.dry_run
dry_run_override(value, configured) ==
    IF value \in {"unset", ""} THEN configured
    ELSE IF value = "1" THEN TRUE
    ELSE IF value = "0" THEN FALSE
    ELSE configured

\* the plugins registered with the plugin manager, in the order a hook calls them
Plugins == 1 .. NPlugins

\* config.extensions: for each configured extension, the plugin whose hook
\* implementation raises for its settings (0: none does)
ExtensionConfigs == UNION {[1 .. n -> 0 .. NPlugins] : n \in 0 .. NExtensions}

\* every plugin receives the hook, whichever raises
call_hook_continue(hook, name, raiser) ==
    [calls |-> [k \in Plugins |-> [hook |-> hook, name |-> name, plugin |-> k]],
     raised |-> FALSE]

\* self.hook.<hook>(name=name, ...): the plugins are called in turn; an
\* exception of an implementation ends the call and reaches the caller
call_hook(hook, name, raiser) ==
    [calls |-> [k \in 1 .. (IF raiser = 0 THEN NPlugins ELSE raiser) |->
                   [hook |-> hook, name |-> name, plugin |-> k]],
     raised |-> raiser # 0]

\* set_up_extensions calling configure_extension whatever dry_run is
extension_hook_configure(dry_run) == "configure_extension"

\* set_up_extensions: the hook called for an extension
extension_hook(dry_run) ==
    IF dry_run THEN "validate_extension" ELSE "configure_extension"

\* set_up_extensions: the loop over config.extensions from extension i on
RECURSIVE set_up_extensions(_, _, _, _)
set_up_extensions(extensions, dry_run, i, received) ==
    IF i > Len(extensions) THEN [hooks |-> received, outcome |-> "ok"]
    ELSE LET call == call_hook(extension_hook(dry_run), i, extensions[i])
         IN  IF call.raised
             THEN [hooks |-> received \o call.calls, outcome |-> "ConfigError"]
             ELSE set_up_extensions(extensions, dry_run, i + 1, received \o call.calls)

\* load_config: the default locations of the configuration file
ENCAB_FILE_CANDIDATES == <<"./encab.yml", "./encab.yaml", "/etc/encab.yml", "/etc/encab.yaml">>

\* load_config: for candidate in ENCAB_FILE_CANDIDATES, from candidate i on;
\* each candidate that exists is assigned to encab_file
RECURSIVE scan_candidates(_, _, _)
scan_candidates(i, existing, chosen) ==
    IF i > Len(ENCAB_FILE_CANDIDATES) THEN chosen
    ELSE scan_candidates(i + 1, existing,
             IF ENCAB_FILE_CANDIDATES[i] \in existing
             THEN [file |-> ENCAB_FILE_CANDIDATES[i], source |-> "Default location"]
             ELSE chosen)

\* load_config: encab_file and source; an empty encab_file is no file
choose_source(stream, config_path, existing) ==
    LET argument == [file |-> IF stream THEN "stream" ELSE "", source |-> "Argument"]
        environment == IF argument.file = "" /\ config_path # "unset"
                       THEN [file |-> config_path, source |-> "Environment ENCAB_CONFIG"]
                       ELSE argument
    IN  IF environment.file = "" THEN scan_candidates(1, existing, environment)
        ELSE environment

\* config, location = load_config(encab_stream)
boot_load ==
    /\ boot = "load"
    /\ LET chosen == choose_source(encab_stream, environ.ENCAB_CONFIG, files)
       IN  IF chosen.file = ""
           THEN /\ exits("FileNotFoundError", handler_code("FileNotFoundError"))
                /\ UNCHANGED <<location, dry, exts>>
           ELSE IF bcfg.load # "ok"
           THEN /\ exits(bcfg.load, handler_code(bcfg.load))
                /\ UNCHANGED <<location, dry, exts>>
           ELSE IF environ.ENCAB_DRY_RUN \notin {"unset", "", "1", "0"}
           THEN /\ exits("ConfigError", handler_code("ConfigError"))
                /\ UNCHANGED <<location, dry, exts>>
           ELSE /\ boot' = "logger"
                /\ location' = chosen
                /\ dry' = <<dry_run_override(environ.ENCAB_DRY_RUN, bcfg.dry_run)>>
                /\ exts' \in ExtensionConfigs
                /\ UNCHANGED <<bcfg, environ, encab_stream, files, cause, status>>
    /\ UNCHANGED <<hooks, did>>

\* logger = set_up_logger(config): extensions.update_logger(ENCAB, logger)
boot_logger ==
    /\ boot = "logger"
    /\ \E raiser \in 0 .. NPlugins :
        LET call == call_hook("update_logger", 0, raiser)
        IN  /\ hooks' = hooks \o call.calls
            /\ step("logger", IF call.raised THEN "ConfigError" ELSE "ok", "extensions")
    /\ UNCHANGED <<location, dry, exts, did>>

\* set_up_extensions(config, logger, extra)
boot_extensions ==
    /\ boot = "extensions"
    /\ LET done == set_up_extensions(exts, dry[1], 1, <<>>)
       IN  /\ hooks' = hooks \o done.hooks
           /\ step("extensions", done.outcome, "dry_run")
    /\ UNCHANGED <<location, dry, exts, did>>

\* if dry_run: return
boot_dry_run ==
    /\ boot = "dry_run"
    /\ IF dry[1]
       THEN exits("dry_run", EX_OK)
       ELSE /\ boot' = "set_user"
            /\ UNCHANGED <<bcfg, environ, encab_stream, files, cause, status>>
    /\ UNCHANGED <<location, dry, exts, hooks, did>>

\* set_user(), set_group(), Process.update_current(user, group, umask)
boot_set_user ==
    /\ step("set_user", bcfg.set_user, "programs")
    /\ did' = IF bcfg.set_user = "ok" THEN did \cup {"update_current"} ELSE did
    /\ UNCHANGED <<location, dry, exts, hooks>>

\* Programs(program_config, context, args, config.encab), then the handlers
\* for SIGINT and SIGTERM are installed
boot_programs ==
    /\ step("programs", IF bcfg.has_main THEN "ok" ELSE "ConfigError", "run")
    /\ did' = IF bcfg.has_main THEN did \cup {"Programs", "signal"} ELSE did
    /\ UNCHANGED <<location, dry, exts, hooks>>

\* programs.run() returns
boot_run ==
    /\ boot = "run"
    /\ boot' = IF bcfg.halt_on_exit THEN "halted" ELSE "ended"
    /\ did' = did \cup {"run"}
    /\ UNCHANGED <<bcfg, environ, encab_stream, files, location, cause, status, dry, exts, hooks>>

\* Programs.exit_code: the final exit code of main, or none (the empty
\* sequence)
programs_exit_code == bcfg.main_rc

\* exit(programs.exit_code if programs.exit_code is not None else EX_UNKNOWN_RC)
boot_exit ==
    /\ boot = "ended"
    /\ exits("ended", IF programs_exit_code # <<>> THEN programs_exit_code[1] ELSE EX_UNKNOWN_RC)
    /\ UNCHANGED <<location, dry, exts, hooks, did>>

\* SIGINT or SIGTERM is delivered to the supervisor: on_signal while it is
\* installed, otherwise Python's KeyboardInterrupt for SIGINT and the default
\* action (the process is killed) for SIGTERM
boot_signal(sig) ==
    /\ boot \notin {"idle", "exited", "killed"}
    /\ IF boot \in {"run", "ended"}
       THEN exits(IF sig = SIGINT THEN "SIGINT" ELSE "SIGTERM",
                  IF sig = SIGINT THEN EX_INTERRUPTED ELSE EX_TERMINATED)
       ELSE IF sig = SIGINT
            THEN exits("KeyboardInterrupt", handler_code("KeyboardInterrupt"))
            ELSE /\ boot' = "killed"
                 /\ cause' = "default SIGTERM"
                 /\ UNCHANGED <<bcfg, environ, encab_stream, files, status>>
    /\ UNCHANGED <<location, dry, exts, hooks, did>>

\* exit codes of a main program
MainExitCodes == {<<>>, <<0>>, <<1>>, <<3>>, <<255>>}

InitBoot ==
    /\ InitProgs
    /\ InitIdle
    /\ delay = [p \in Progs |-> FALSE]
    /\ cmdok = [p \in Progs |-> TRUE]
    /\ kind = [p \in Progs |-> "sleep"]
    /\ xpc = "idle"
    /\ streams = <<>>
    /\ pclosed = {}
    /\ wclose = [l \in LogStreams |-> "none"]
    /\ xcfg = [ok |-> TRUE, log_stdout |-> TRUE, exec_raises |-> FALSE]
    /\ input = <<>>
    /\ pos = 0
    /\ records = <<>>
    /\ lpc = "idle"
    /\ level = "INFO"
    /\ boot = "load"
    /\ bcfg \in [load : {"ok", "FileNotFoundError", "PermissionError", "ValueError"},
                 dry_run : BOOLEAN,
                 set_user : {"ok", "ConfigError", "PermissionError", "ValueError"},
                 has_main : BOOLEAN,
                 halt_on_exit : BOOLEAN,
                 main_rc : MainExitCodes]
    /\ cause = "none"
    /\ status = <<>>
    /\ environ \in [ENCAB_CONFIG : {"/my/encab.yml"}, ENCAB_DRY_RUN : DryRunValues]
    /\ encab_stream = FALSE
    /\ files = {}
    /\ location = [file |-> "", source |-> ""]
    /\ dry = <<>>
    /\ exts = <<>>
    /\ hooks = <<>>
    /\ did = {}
    /\ InitUnbuilt

NextBoot ==
    \/ (boot_load /\ UNCHANGED <<progvars, wvars, qvars, gvars, evars, lvars, cvars>>)
    \/ (boot_logger /\ UNCHANGED <<progvars, wvars, qvars, gvars, evars, lvars, cvars>>)
    \/ (boot_extensions /\ UNCHANGED <<progvars, wvars, qvars, gvars, evars, lvars, cvars>>)
    \/ (boot_dry_run /\ UNCHANGED <<progvars, wvars, qvars, gvars, evars, lvars, cvars>>)
    \/ (boot_set_user /\ UNCHANGED <<progvars, wvars, qvars, gvars, evars, lvars, cvars>>)
    \/ (boot_programs /\ UNCHANGED <<progvars, wvars, qvars, gvars, evars, lvars, cvars>>)
    \/ (boot_run /\ UNCHANGED <<progvars, wvars, qvars, gvars, evars, lvars, cvars>>)
    \/ (boot_exit /\ UNCHANGED <<progvars, wvars, qvars, gvars, evars, lvars, cvars>>)
    \/ (\E sig \in Signals : boot_signal(sig) /\ UNCHANGED <<progvars, wvars, qvars, gvars, evars, lvars, cvars>>)

SpecBoot == InitBoot /\ [][NextBoot]_vars

\* the values of the environment variable ENCAB_CONFIG: not set, empty, a path
ConfigPaths == {"unset", "", "/my/encab.yml"}

\* encab() is about to load its configuration, given as a stream or to be
\* found; reading a stream opens no file
InitLoad ==
    /\ InitProgs
    /\ InitIdle
    /\ delay = [p \in Progs |-> FALSE]
    /\ cmdok = [p \in Progs |-> TRUE]
    /\ kind = [p \in Progs |-> "sleep"]
    /\ xpc = "idle"
    /\ streams = <<>>
    /\ pclosed = {}
    /\ wclose = [l \in LogStreams |-> "none"]
    /\ xcfg = [ok |-> TRUE, log_stdout |-> TRUE, exec_raises |-> FALSE]
    /\ input = <<>>
    /\ pos = 0
    /\ records = <<>>
    /\ lpc = "idle"
    /\ level = "INFO"
    /\ boot = "load"
    /\ encab_stream \in BOOLEAN
    /\ bcfg \in [load : IF encab_stream THEN {"ok", "ValueError"}
                        ELSE {"ok", "FileNotFoundError", "PermissionError", "ValueError"},
                 dry_run : {FALSE},
                 set_user : {"ok"},
                 has_main : {TRUE},
                 halt_on_exit : {FALSE},
                 main_rc : {<<0>>}]
    /\ cause = "none"
    /\ status = <<>>
    /\ environ \in [ENCAB_CONFIG : ConfigPaths, ENCAB_DRY_RUN : {"unset", "1"}]
    /\ files \in SUBSET {ENCAB_FILE_CANDIDATES[i] : i \in 1 .. Len(ENCAB_FILE_CANDIDATES)}
    /\ location = [file |-> "", source |-> ""]
    /\ dry = <<>>
    /\ exts = <<>>
    /\ hooks = <<>>
    /\ did = {}
    /\ InitUnbuilt

NextLoad == boot_load /\ UNCHANGED <<progvars, wvars, qvars, gvars, evars, lvars, cvars>>

SpecLoad == InitLoad /\ [][NextLoad]_vars

\* ------------------------------------------------------------ configuration

\* a field of a configuration holds a Python value, given by its type and
\* its text; None is the value of a field that is not set
None == [type |-> "NoneType", repr |-> "None"]

\* the value counts as false in a condition (if value, value or default):
\* it is None, False, zero or empty
falsy(v) == v = None \/ v.repr \in {"False", "0", "0.0", "", "{}"}

\* logging.DEBUG and logging.INFO
DEBUG == [type |-> "int", repr |-> "10"]
INFO == [type |-> "int", repr |-> "20"]

\* self._unsetFields = [f.name for f in fields(self) if getattr(self, f.name) is None]
unset_fields(c) ==
    {f \in DOMAIN c \ {"name", "command", "sh"} : c[f] = None}
    \cup (IF "command" \in DOMAIN c /\ c.command = <<>> THEN {"command"} ELSE {})
    \cup (IF "sh" \in DOMAIN c /\ c.sh = "" THEN {"sh"} ELSE {})

\* __post_init__ of a configuration created with the fields c: the unset
\* fields are recorded, then environment, loglevel, umask and join_time get
\* their values and defaults (and startup_delay of a program, dry_run of the
\* encab section)
post_init(c) ==
    LET default(f, v) == IF falsy(c[f]) THEN v ELSE c[f]
        defaulted ==
            [f \in DOMAIN c |->
                CASE f = "environment" -> default(f, [type |-> "dict", repr |-> "{}"])
                  [] f = "loglevel" -> IF ~falsy(c.debug) THEN DEBUG ELSE default(f, INFO)
                  [] f = "umask" ->
                        IF falsy(c[f]) THEN [type |-> "int", repr |-> "-1"]
                        ELSE IF c[f].type = "int" THEN c[f]
                        ELSE [type |-> "int", repr |-> "63"]   \* int("077", 8)
                  [] f = "join_time" -> default(f, [type |-> "float", repr |-> "1.0"])
                  [] f = "startup_delay" -> default(f, [type |-> "int", repr |-> "0"])
                  [] f = "dry_run" -> default(f, [type |-> "bool", repr |-> "False"])
                  [] OTHER -> c[f]]
    IN  [f \in DOMAIN c \cup {"_unsetFields"} |->
            IF f = "_unsetFields" THEN unset_fields(c) ELSE defaulted[f]]

\* extend taking the fields that are None when extend is called
extend_config_unset_now(self, other) ==
    [f \in DOMAIN self |->
        IF /\ f \notin {"name", "command", "sh", "_unsetFields"}
           /\ self[f] = None
           /\ f \in DOMAIN other
           /\ other[f] # None
        THEN other[f] ELSE self[f]]

\* AbstractProgramConfig.extend: every field of self that was not set when
\* self was created takes the value of other, if other has the field and its
\* value is not None
extend_config(self, other) ==
    [f \in DOMAIN self |->
        IF /\ f \in self._unsetFields
           /\ f \in DOMAIN other
           /\ other[f] # None
        THEN other[f] ELSE self[f]]

\* pwd.getpwnam(name).pw_uid: the uid of the user, or none with a KeyError
getUserId(name) == IF name = "www" THEN <<"33">> ELSE <<>>

\* str.isnumeric() of the user names used here
isnumeric(text) == text \in {"0", "33", "1000"}

\* AbstractProgramConfig.set_user for a supervisor of user id uid: a user
\* given as a number or as numeric text becomes an int, a user name becomes
\* the uid of the user; raises ConfigError for an unknown user and for a
\* user other than the supervisor's unless the supervisor is root
set_user(c, uid) ==
    LET user == c.user
        numeric == user.type = "int" \/ isnumeric(user.repr)
        id == IF numeric THEN <<user.repr>> ELSE getUserId(user.repr)
    IN  IF falsy(user) THEN [config |-> c, raised |-> "none"]
        ELSE IF id = <<>> THEN [config |-> c, raised |-> "ConfigError"]
        ELSE [config |-> [c EXCEPT !.user = [type |-> "int", repr |-> id[1]]],
              raised |-> IF (user.type # "int" \/ user.repr # uid) /\ uid # "0"
                         THEN "ConfigError" ELSE "none"]

\* the settings a program or the encab section may be given: each is either
\* left out or given one value (a user also as a name)
Settings ==
    [environment : {None, [type |-> "dict", repr |-> "{X: 1}"]},
     debug : {None, [type |-> "bool", repr |-> "True"]},
     loglevel : {None, [type |-> "str", repr |-> "ERROR"]},
     umask : {None, [type |-> "str", repr |-> "077"]},
     user : {None, [type |-> "int", repr |-> "1000"], [type |-> "str", repr |-> "www"]},
     group : {None, [type |-> "str", repr |-> "staff"]},
     join_time : {None, [type |-> "float", repr |-> "5.0"]}]

\* no setting is given
NoSettings == [f \in {"environment", "debug", "loglevel", "umask", "user", "group", "join_time"} |-> None]

\* the record with the fields of both records
both(a, b) == [f \in DOMAIN a \cup DOMAIN b |-> IF f \in DOMAIN a THEN a[f] ELSE b[f]]

\* ProgramConfig.create(command=..., sh=..., **given) for the program
\* declared under name
ProgramConfig(name, command, sh, given) ==
    post_init(both([name |-> name, command |-> command, sh |-> sh, startup_delay |-> None],
                   given))

\* EncabConfig.create(**given)
EncabConfig(given) == post_init(both([dry_run |-> None], given))

\* config.encab after encab() called set_user() and set_group() on it: user
\* and group are numbers or None
EncabConfigs ==
    {EncabConfig([NoSettings EXCEPT !.user = u, !.group = g]) :
        u \in {None, [type |-> "int", repr |-> "1000"]},
        g \in {None, [type |-> "int", repr |-> "50"]}}

\* os.getuid(): the supervisor is root or the user 1000
Uids == {"0", "1000"}

\* a direct call program_config.extend(encab_config)
config_extend ==
    /\ extended = <<>>
    /\ Len(program_configs) = 1
    /\ encab_config # <<>>
    /\ extended' = <<[self |-> extend_config(program_configs[1], encab_config[1]),
                      other |-> encab_config[1]]>>
    /\ UNCHANGED <<program_configs, args, programs, encab_config, getuid>>

\* ------------------------------------------------------------ Programs()

\* the names a configuration declares programs under
ProgramNames == {"main", "helper", "helper2"}

\* ProgramConfig: either command, a list of arguments, or sh, a script, is set
ProgramConfigs ==
    {ProgramConfig(n, <<"sleep", "10">>, "", NoSettings) : n \in ProgramNames}
    \cup {ProgramConfig(n, <<>>, "echo Main", NoSettings) : n \in ProgramNames}

\* Program(name, config, context): the program executes self.command, which
\* is config.command
Program(name, config) == [name |-> name, command |-> config.command, config |-> config]

\* the configuration of main left as it was declared
main_config_declared(config, argv) == config

\* if args: program_config.command = args
main_config(config, argv) ==
    IF argv # <<>> THEN [config EXCEPT !.command = argv] ELSE config

\* Programs.__init__, the loop body: if encab_config:
\* program_config.extend(encab_config); program_config.set_user()
configured(config, encab, uid) ==
    IF encab = <<>> THEN [config |-> config, raised |-> "none"]
    ELSE set_user(extend_config(config, encab[1]), uid)

\* Programs.__init__: the loop over program_configs.items() from item i on;
\* an exception of set_user ends the construction
RECURSIVE construct(_, _, _, _, _, _)
construct(configs, argv, encab, uid, i, built) ==
    IF i > Len(configs) THEN built
    ELSE LET done == configured(configs[i], encab, uid)
         IN  IF done.raised # "none"
             THEN [main |-> <<>>, helpers |-> <<>>, built |-> done.raised]
             ELSE construct(configs, argv, encab, uid, i + 1,
                      IF configs[i].name = "main"
                      THEN [built EXCEPT !.main = <<Program("main", main_config(done.config, argv))>>]
                      ELSE [built EXCEPT !.helpers =
                                Append(@, Program(configs[i].name, done.config))])

\* Programs.__init__: the loop, then main synthesised from the arguments
\* (ProgramConfig.create(command=args, environment={}), extended by
\* encab_config), or the ConfigError
Programs_init(configs, argv, encab, uid) ==
    LET looped == construct(configs, argv, encab, uid, 1,
                            [main |-> <<>>, helpers |-> <<>>, built |-> "no"])
        created == ProgramConfig("main", argv, "",
                       [NoSettings EXCEPT !.environment = [type |-> "dict", repr |-> "{}"]])
        synthesised == IF encab = <<>> THEN created ELSE extend_config(created, encab[1])
    IN  IF looped.built # "no" THEN looped
        ELSE IF looped.main # <<>> THEN [looped EXCEPT !.built = "ok"]
        ELSE IF argv # <<>>
             THEN [looped EXCEPT !.main = <<Program("main", synthesised)>>, !.built = "ok"]
             ELSE [main |-> <<>>, helpers |-> <<>>, built |-> "ConfigError"]

\* programs = Programs(program_config, context, args, config.encab)
programs_new ==
    /\ programs.built = "no"
    /\ programs' = Programs_init(program_configs, args, encab_config, getuid)
    /\ UNCHANGED <<program_configs, args, encab_config, getuid, extended>>

\* the command lines encab is started with
Arguments == {<<>>, <<"echo", "Custom Main">>}

\* the programs section of a configuration: a dictionary, so that no name is
\* declared twice
Declarations ==
    {configs \in UNION {[1 .. n -> ProgramConfigs] : n \in 0 .. Cardinality(ProgramNames)} :
        \A i, j \in 1 .. Len(configs) : configs[i].name = configs[j].name => i = j}

InitPrograms ==
    /\ InitProgs
    /\ InitIdle
    /\ delay = [p \in Progs |-> FALSE]
    /\ cmdok = [p \in Progs |-> TRUE]
    /\ kind = [p \in Progs |-> "sleep"]
    /\ xpc = "idle"
    /\ streams = <<>>
    /\ pclosed = {}
    /\ wclose = [l \in LogStreams |-> "none"]
    /\ xcfg = [ok |-> TRUE, log_stdout |-> TRUE, exec_raises |-> FALSE]
    /\ input = <<>>
    /\ pos = 0
    /\ records = <<>>
    /\ lpc = "idle"
    /\ level = "INFO"
    /\ InitBootIdle
    /\ program_configs \in Declarations
    /\ args \in Arguments
    /\ programs = [main |-> <<>>, helpers |-> <<>>, built |-> "no"]
    /\ heap = <<>>
    /\ ctx = <<>>
    /\ mutated = <<>>
    /\ called = [op |-> "none"]
    /\ children = <<>>
    /\ rpc = "idle"
    /\ rret = [value |-> <<>>, raised |-> "none", nochild |-> FALSE]
    /\ reaped = {}
    /\ InitNoWaiters
    /\ InitNoProcess
    /\ encab_config \in {<<>>, <<EncabConfig(NoSettings)>>}
    /\ getuid \in Uids
    /\ extended = <<>>

NextPrograms ==
    programs_new /\ UNCHANGED <<progvars, wvars, qvars, evars, lvars, bvars, heap, ctx, mutated, called,
                                children, rpc, rret, reaped>>

SpecPrograms == InitPrograms /\ [][NextPrograms]_vars

\* no program is run, nothing is executed or logged, encab() is not running
InitNoTasks ==
    /\ InitProgs
    /\ InitIdle
    /\ delay = [p \in Progs |-> FALSE]
    /\ cmdok = [p \in Progs |-> TRUE]
    /\ kind = [p \in Progs |-> "sleep"]
    /\ xpc = "idle"
    /\ streams = <<>>
    /\ pclosed = {}
    /\ wclose = [l \in LogStreams |-> "none"]
    /\ xcfg = [ok |-> TRUE, log_stdout |-> TRUE, exec_raises |-> FALSE]
    /\ input = <<>>
    /\ pos = 0
    /\ records = <<>>
    /\ lpc = "idle"
    /\ level = "INFO"
    /\ InitBootIdle

\* no execution context exists and no reap loop runs
InitNoContexts ==
    /\ heap = <<>>
    /\ ctx = <<>>
    /\ mutated = <<>>
    /\ called = [op |-> "none"]
    /\ children = <<>>
    /\ rpc = "idle"
    /\ rret = [value |-> <<>>, raised |-> "none", nochild |-> FALSE]
    /\ reaped = {}

\* a program configuration and an encab section, each created with any of
\* the settings
InitExtend ==
    /\ InitNoTasks
    /\ InitNoContexts
    /\ InitNoWaiters
    /\ InitNoProcess
    /\ program_configs \in
           {<<ProgramConfig("main", <<"sleep", "10">>, "", given)>> : given \in Settings}
    /\ args = <<>>
    /\ programs = [main |-> <<>>, helpers |-> <<>>, built |-> "no"]
    /\ encab_config \in {<<EncabConfig(given)>> : given \in Settings}
    /\ getuid = "0"
    /\ extended = <<>>

NextExtend == config_extend /\ UNCHANGED <<progvars, wvars, qvars, evars, lvars, bvars, heap, ctx, mutated,
                                           called, children, rpc, rret, reaped>>

SpecExtend == InitExtend /\ [][NextExtend]_vars

\* the user and the group a program may declare: none, a number, the name
\* of a user or group that exists, the name of a user that does not
Identities ==
    {[NoSettings EXCEPT !.user = u, !.group = g] :
        u \in {None, [type |-> "int", repr |-> "1000"], [type |-> "str", repr |-> "www"],
               [type |-> "str", repr |-> "ghost"]},
        g \in {None, [type |-> "int", repr |-> "50"], [type |-> "str", repr |-> "staff"]}}

\* the programs section of a configuration whose programs declare users and
\* groups
IdentityDeclarations ==
    {configs \in UNION {[1 .. n -> {ProgramConfig(name, <<"sleep", "10">>, "", given) :
                                       name \in {"main", "helper"}, given \in Identities}] :
                        n \in 0 .. 2} :
        \A i, j \in 1 .. Len(configs) : configs[i].name = configs[j].name => i = j}

\* encab() constructing the orchestrator: config.encab has its user and
\* group resolved
InitConfigure ==
    /\ InitNoTasks
    /\ InitNoContexts
    /\ InitNoWaiters
    /\ InitNoProcess
    /\ program_configs \in IdentityDeclarations
    /\ args \in Arguments
    /\ programs = [main |-> <<>>, helpers |-> <<>>, built |-> "no"]
    /\ encab_config \in {<<e>> : e \in EncabConfigs}
    /\ getuid \in Uids
    /\ encab_config[1].user # None /\ getuid # "0" => encab_config[1].user.repr = getuid
    /\ extended = <<>>

SpecConfigure == InitConfigure /\ [][NextPrograms]_vars

\* ------------------------------------------------------------ ExecutionContext

\* names and values of environment variables; a variable a dictionary does
\* not hold has the value "-"
EnvKeys == {"X", "Y"}
EnvValues == {"1", "2", "3"}
Envs == [EnvKeys -> EnvValues \cup {"-"}]

\* the environment of a root context
RootEnvs == [EnvKeys -> {"1", "-"}]

\* the environment argument of extend and spawn: None (the empty sequence) or
\* a dictionary, which may be empty
Overlays == {<<>>} \cup {<<d>> : d \in [EnvKeys -> {"2", "-"}]}

\* environment or {}
or_empty(environment) ==
    IF environment = <<>> THEN [k \in EnvKeys |-> "-"] ELSE environment[1]

\* the new environment is the dictionary of the context itself
same_object(h, o) == [heap |-> h, ref |-> o]

\* deepcopy(self.environment): a new dictionary with the same content
deepcopy(h, o) == [heap |-> Append(h, h[o]), ref |-> Len(h) + 1]

\* the values the dictionary already holds are kept
update_missing(h, o, d) ==
    [h EXCEPT ![o] = [k \in EnvKeys |-> IF @[k] # "-" THEN @[k] ELSE d[k]]]

\* env.update(environment), on the dictionary o
update(h, o, d) ==
    [h EXCEPT ![o] = [k \in EnvKeys |-> IF d[k] # "-" THEN d[k] ELSE @[k]]]

\* the body of extend and of spawn: the heap afterwards and the dictionary of
\* the new context
derive(c, environment) ==
    LET copy == deepcopy(heap, ctx[c].environment)
        d == or_empty(environment)
    IN  [heap |-> IF d # [k \in EnvKeys |-> "-"] THEN update(copy.heap, copy.ref, d)
                  ELSE copy.heap,
         ref |-> copy.ref]

\* ExecutionContext.extend(environment) or, for a program,
\* ExecutionContext.spawn(environment, logger, extra) on context c
derived(how, c, environment) ==
    /\ Len(ctx) < MaxContexts
    /\ LET new == derive(c, environment)
       IN  /\ heap' = new.heap
           /\ ctx' = Append(ctx, [environment |-> new.ref, parent |-> c, op |-> how,
                                  overlay |-> or_empty(environment),
                                  inherited |-> heap[ctx[c].environment]])
    /\ called' = [op |-> how, parent |-> c, child |-> Len(ctx) + 1, overlay |-> environment,
                before |-> heap[ctx[c].environment]]
    /\ UNCHANGED mutated

extend(c, environment) == derived("extend", c, environment)

\* Program.__init__: self.context = parent_context.spawn(self.config.environment, ...)
spawn(c, environment) == derived("spawn", c, environment)

\* the owner of context c changes its environment dictionary in place
mutate(c, k, v) ==
    /\ Len(mutated) < MaxMutations
    /\ heap' = [heap EXCEPT ![ctx[c].environment][k] = v]
    /\ mutated' = Append(mutated, c)
    /\ called' = [op |-> "mutate"]
    /\ UNCHANGED ctx

InitContexts ==
    /\ InitProgs
    /\ InitIdle
    /\ delay = [p \in Progs |-> FALSE]
    /\ cmdok = [p \in Progs |-> TRUE]
    /\ kind = [p \in Progs |-> "sleep"]
    /\ xpc = "idle"
    /\ streams = <<>>
    /\ pclosed = {}
    /\ wclose = [l \in LogStreams |-> "none"]
    /\ xcfg = [ok |-> TRUE, log_stdout |-> TRUE, exec_raises |-> FALSE]
    /\ input = <<>>
    /\ pos = 0
    /\ records = <<>>
    /\ lpc = "idle"
    /\ level = "INFO"
    /\ InitBootIdle
    /\ program_configs = <<>>
    /\ args = <<>>
    /\ programs = [main |-> <<>>, helpers |-> <<>>, built |-> "no"]
    /\ \E root \in RootEnvs :
        /\ heap = <<root>>
        /\ ctx = <<[environment |-> 1, parent |-> 0, op |-> "root",
                    overlay |-> [k \in EnvKeys |-> "-"], inherited |-> root]>>
    /\ mutated = <<>>
    /\ called = [op |-> "none"]
    /\ children = <<>>
    /\ rpc = "idle"
    /\ rret = [value |-> <<>>, raised |-> "none", nochild |-> FALSE]
    /\ reaped = {}
    /\ InitNoWaiters
    /\ InitNoProcess
    /\ InitUnconfigured

NextContexts ==
    \/ \E c \in 1 .. Len(ctx), environment \in Overlays :
           extend(c, environment)
           /\ UNCHANGED <<progvars, wvars, qvars, gvars, evars, lvars, bvars, program_configs, args, programs,
                          children, rpc, rret, reaped>>
    \/ \E c \in 1 .. Len(ctx), environment \in Overlays :
           spawn(c, environment)
           /\ UNCHANGED <<progvars, wvars, qvars, gvars, evars, lvars, bvars, program_configs, args, programs,
                          children, rpc, rret, reaped>>
    \/ \E c \in 1 .. Len(ctx), k \in EnvKeys :
           mutate(c, k, "3")
           /\ UNCHANGED <<progvars, wvars, qvars, gvars, evars, lvars, bvars, program_configs, args, programs,
                          children, rpc, rret, reaped>>

SpecContexts == InitContexts /\ [][NextContexts]_vars

\* ------------------------------------------------------------ reap loop

\* the pids of the children: the launched child and the processes of its
\* group that became children of the supervisor
Pids == 1 .. NChildren
child_process_pid == 1

\* a wait status: the child runs, is stopped (the stop not yet reported, or
\* reported), is a zombie that exited with a code or was killed by a signal,
\* was reaped by the loop, or is no child (not yet, or no longer)
no_status == [st |-> "none", code |-> 0]

\* the children waitpid has a status change to report of
Waitable == {p \in Pids : children[p].st \in {"stopped", "exited", "signaled"}}

\* the children of the supervisor in the process group
Existing == {p \in Pids : children[p].st \notin {"absent", "gone", "reaped"}}

\* os.waitpid(-child_process_pid, os.WUNTRACED): the results the call can
\* have; it blocks (no result) while children exist and none has changed, and
\* raises ChildProcessError when there is no child
waitpid ==
    IF Waitable # {}
    THEN {[error |-> "none", pid |-> p, status |-> children[p]] : p \in Waitable}
    ELSE IF Existing = {}
         THEN {[error |-> "ChildProcessError", pid |-> 0, status |-> no_status]}
         ELSE {}

\* the kernel's part of a wait call that reported child p: a zombie is
\* reaped, a stop is reported once
waited_for(p) ==
    [children EXCEPT ![p].st = IF @ = "stopped" THEN "stopped_seen" ELSE "reaped"]

\* os.waitstatus_to_exitcode(status): the exit code, the negative signal
\* number, or a ValueError for a status that is no termination
waitstatus_to_exitcode(wstatus) ==
    IF wstatus.st = "exited" THEN [value |-> <<wstatus.code>>, raised |-> "none"]
    ELSE IF wstatus.st = "signaled" THEN [value |-> <<0 - wstatus.code>>, raised |-> "none"]
    ELSE [value |-> <<>>, raised |-> "ValueError"]

\* the loop ends, returning or raising
loop_ends(result, nochild) ==
    /\ rpc' = IF result.raised = "none" THEN "returned" ELSE "raised"
    /\ rret' = [value |-> result.value, raised |-> result.raised, nochild |-> nochild]
    /\ UNCHANGED reaped

\* one iteration of the loop of _wait_and_reap_zombies
reap_step ==
    /\ rpc = "waiting"
    /\ \E r \in waitpid :
        IF r.error # "none"
        THEN /\ loop_ends([value |-> <<>>, raised |-> r.error], TRUE)
             /\ UNCHANGED children
        ELSE /\ children' = waited_for(r.pid)
             /\ IF r.pid = 0 - 1
                THEN loop_ends([value |-> <<EX_NOCHILD>>, raised |-> "none"], TRUE)
                ELSE IF r.pid = 0
                THEN UNCHANGED <<rpc, rret, reaped>>
                ELSE IF r.pid = child_process_pid
                THEN loop_ends(waitstatus_to_exitcode(r.status), FALSE)
                ELSE /\ reaped' = reaped \cup {r.pid}
                     /\ UNCHANGED <<rpc, rret>>

\* a running child exits with a code; a running or stopped child is killed
\* by a signal
child_terminates(p, st, code) ==
    /\ rpc = "waiting"
    /\ \/ children[p].st = "running"
       \/ children[p].st \in {"stopped", "stopped_seen"} /\ st = "signaled"
    /\ children' = [children EXCEPT ![p] = [st |-> st, code |-> code]]
    /\ UNCHANGED <<rpc, rret, reaped>>

\* a running child is stopped by a signal
child_stops(p) ==
    /\ rpc = "waiting"
    /\ children[p].st = "running"
    /\ children' = [children EXCEPT ![p].st = "stopped"]
    /\ UNCHANGED <<rpc, rret, reaped>>

\* a stopped child is continued
child_continues(p) ==
    /\ rpc = "waiting"
    /\ children[p].st \in {"stopped", "stopped_seen"}
    /\ children' = [children EXCEPT ![p].st = "running"]
    /\ UNCHANGED <<rpc, rret, reaped>>

\* an orphaned process of the group becomes a child of the supervisor
child_adopted(p) ==
    /\ rpc = "waiting"
    /\ p # child_process_pid
    /\ children[p].st = "absent"
    /\ children' = [children EXCEPT ![p].st = "running"]
    /\ UNCHANGED <<rpc, rret, reaped>>

\* a zombie is reaped by another wait call of the supervisor, or by the
\* kernel when SIGCHLD is ignored
child_reaped_elsewhere(p) ==
    /\ rpc = "waiting"
    /\ children[p].st \in {"exited", "signaled"}
    /\ children' = [children EXCEPT ![p].st = "gone"]
    /\ UNCHANGED <<rpc, rret, reaped>>


\* the ways a child terminates: exit codes and signals
Terminations ==
    {[st |-> "exited", code |-> c] : c \in {0, 3}}
    \cup {[st |-> "signaled", code |-> sig] : sig \in {SIGTERM}}

\* execute() has launched the child and enters the loop
InitReap ==
    /\ InitProgs
    /\ InitIdle
    /\ delay = [p \in Progs |-> FALSE]
    /\ cmdok = [p \in Progs |-> TRUE]
    /\ kind = [p \in Progs |-> "sleep"]
    /\ xpc = "idle"
    /\ streams = <<>>
    /\ pclosed = {}
    /\ wclose = [l \in LogStreams |-> "none"]
    /\ xcfg = [ok |-> TRUE, log_stdout |-> TRUE, exec_raises |-> FALSE]
    /\ input = <<>>
    /\ pos = 0
    /\ records = <<>>
    /\ lpc = "idle"
    /\ level = "INFO"
    /\ InitBootIdle
    /\ program_configs = <<>>
    /\ args = <<>>
    /\ programs = [main |-> <<>>, helpers |-> <<>>, built |-> "no"]
    /\ heap = <<>>
    /\ ctx = <<>>
    /\ mutated = <<>>
    /\ called = [op |-> "none"]
    /\ children = [p \in Pids |-> [st |-> IF p = child_process_pid THEN "running" ELSE "absent",
                                   code |-> 0]]
    /\ rpc = "waiting"
    /\ rret = [value |-> <<>>, raised |-> "none", nochild |-> FALSE]
    /\ reaped = {}
    /\ InitNoWaiters
    /\ InitNoProcess
    /\ InitUnconfigured

NextReap ==
    \/ (reap_step /\ UNCHANGED <<progvars, wvars, qvars, gvars, evars, lvars, bvars, program_configs, args, programs,
                                 heap, ctx, mutated, called>>)
    \/ \E p \in Pids, t \in Terminations :
           child_terminates(p, t.st, t.code)
           /\ UNCHANGED <<progvars, wvars, qvars, gvars, evars, lvars, bvars, program_configs, args, programs,
                          heap, ctx, mutated, called>>
    \/ \E p \in Pids :
           child_stops(p)
           /\ UNCHANGED <<progvars, wvars, qvars, gvars, evars, lvars, bvars, program_configs, args, programs,
                          heap, ctx, mutated, called>>
    \/ \E p \in Pids :
           child_continues(p)
           /\ UNCHANGED <<progvars, wvars, qvars, gvars, evars, lvars, bvars, program_configs, args, programs,
                          heap, ctx, mutated, called>>
    \/ \E p \in Pids :
           child_adopted(p)
           /\ UNCHANGED <<progvars, wvars, qvars, gvars, evars, lvars, bvars, program_configs, args, programs,
                          heap, ctx, mutated, called>>
    \/ \E p \in Pids :
           child_reaped_elsewhere(p)
           /\ UNCHANGED <<progvars, wvars, qvars, gvars, evars, lvars, bvars, program_configs, args, programs,
                          heap, ctx, mutated, called>>

SpecReap == InitReap /\ [][NextReap]_vars

\* ------------------------------------------------------------ Process

\* the pid of the child Popen forks
ChildPid == 4711

\* pwd.getpwuid(uid): the passwd entry of the uid, or none with a KeyError
getpwuid(uid) == IF uid \in {"0", "33", "1000"} THEN <<[pw_uid |-> uid]>> ELSE <<>>

\* preexec_fn, run in the child between fork and exec: the calls it makes in
\* turn and the exception that ends it. user_data is the variable of
\* execute, bound to a passwd entry or not bound at all; reading it unbound
\* raises NameError. A supervisor that is not root may only set the group it
\* has and may not call initgroups or setuid.
preexec_fn(uid, gid, umask, user_data, own) ==
    LET root == own = "0"
        a == IF falsy(gid) THEN [calls |-> <<>>, raised |-> "none"]
             ELSE IF root \/ gid.repr = own
                  THEN [calls |-> <<"setgid">>, raised |-> "none"]
                  ELSE [calls |-> <<"setgid">>, raised |-> "PermissionError"]
        b == IF a.raised # "none" \/ falsy(uid) THEN a
             ELSE IF user_data = <<>> THEN [a EXCEPT !.raised = "NameError"]
             ELSE IF root
                  THEN [a EXCEPT !.calls = @ \o <<"initgroups", "setuid">>]
                  ELSE [calls |-> a.calls \o <<"initgroups">>, raised |-> "PermissionError"]
        c == IF b.raised # "none" \/ falsy(umask) \/ umask.repr = "-1" THEN b
             ELSE [b EXCEPT !.calls = @ \o <<"umask">>]
    IN  c

\* Process.execute up to the return of Popen: the passwd entry is looked up
\* if the uid is set and differs from the supervisor's (ValueError if there
\* is none), then Popen forks the child, which runs preexec_fn and then the
\* command; an exception in preexec_fn makes Popen raise SubprocessError
execute_popen ==
    /\ ppc = "created"
    /\ LET uid == proc.user
           lookup == ~falsy(uid) /\ getuid # uid.repr
           user_data == IF lookup THEN getpwuid(uid.repr) ELSE <<>>
           child == preexec_fn(uid, proc.group, proc.umask, user_data, getuid)
       IN  IF lookup /\ user_data = <<>>
           THEN /\ ppc' = "raised"
                /\ praise' = "ValueError"
                /\ UNCHANGED <<preexec, self_process>>
           ELSE /\ preexec' = child.calls
                /\ IF child.raised # "none"
                   THEN /\ ppc' = "raised"
                        /\ praise' = "SubprocessError"
                        /\ UNCHANGED self_process
                   ELSE /\ ppc' = "running"
                        /\ self_process' = <<[pid |-> ChildPid]>>
                        /\ UNCHANGED praise
    /\ UNCHANGED <<proc, getuid, pidret, oskill>>

\* the child terminates, by itself or by a signal: it is a zombie until it is
\* waited for
child_ends ==
    /\ ppc = "running"
    /\ ppc' = "terminated"
    /\ UNCHANGED <<proc, getuid, praise, preexec, self_process, pidret, oskill>>

\* self._process.wait() returns: the child was waited for and its pid is
\* free to be given to another process
process_waited ==
    /\ ppc = "terminated"
    /\ ppc' = "waited"
    /\ UNCHANGED <<proc, getuid, praise, preexec, self_process, pidret, oskill>>

\* Process.pid(): self._process.pid if self._process and self._process.pid
\* else None (the empty sequence)
pid == IF self_process # <<>> /\ self_process[1].pid # 0 THEN <<self_process[1].pid>> ELSE <<>>

\* a call of pid() from any thread
call_pid ==
    /\ ppc # "none"
    /\ pidret' = <<[at |-> ppc, value |-> pid]>>
    /\ UNCHANGED <<proc, getuid, ppc, praise, preexec, self_process, oskill>>

\* Process.signal(signal), and kill() and terminate() by way of it:
\* if_running calls os.kill(pid, signal) whenever self._process has a pid
call_signal(sig) ==
    /\ ppc # "none"
    /\ Len(oskill) < MaxKills
    /\ oskill' = IF self_process # <<>> /\ self_process[1].pid # 0
                 THEN Append(oskill, [pid |-> self_process[1].pid, signal |-> sig, at |-> ppc])
                 ELSE oskill
    /\ UNCHANGED <<proc, getuid, ppc, praise, preexec, self_process, pidret>>

\* SIGKILL, sent by Process.kill()
SIGKILL == 9

\* the users, groups and umasks a process is created with
ProcessSettings ==
    [user : {None, [type |-> "int", repr |-> "0"], [type |-> "int", repr |-> "33"],
             [type |-> "int", repr |-> "1000"], [type |-> "int", repr |-> "4242"]},
     group : {None, [type |-> "int", repr |-> "50"], [type |-> "int", repr |-> "1000"]},
     umask : {None, [type |-> "int", repr |-> "-1"], [type |-> "int", repr |-> "63"]}]

InitProcess ==
    /\ InitNoTasks
    /\ InitNoContexts
    /\ InitNoWaiters
    /\ program_configs = <<>>
    /\ args = <<>>
    /\ programs = [main |-> <<>>, helpers |-> <<>>, built |-> "no"]
    /\ encab_config = <<>>
    /\ extended = <<>>
    /\ proc \in ProcessSettings
    /\ getuid \in Uids
    /\ ppc = "created"
    /\ praise = "none"
    /\ preexec = <<>>
    /\ self_process = <<>>
    /\ pidret = <<>>
    /\ oskill = <<>>

NextProcess ==
    \/ (execute_popen /\ UNCHANGED <<progvars, wvars, evars, lvars, bvars, cvars, encab_config, extended>>)
    \/ (child_ends /\ UNCHANGED <<progvars, wvars, evars, lvars, bvars, cvars, encab_config, extended>>)
    \/ (process_waited /\ UNCHANGED <<progvars, wvars, evars, lvars, bvars, cvars, encab_config, extended>>)
    \/ (call_pid /\ UNCHANGED <<progvars, wvars, evars, lvars, bvars, cvars, encab_config, extended>>)
    \/ (\E sig \in {SIGINT, SIGTERM, SIGKILL} :
           call_signal(sig) /\ UNCHANGED <<progvars, wvars, evars, lvars, bvars, cvars, encab_config, extended>>)

SpecProcess == InitProcess /\ [][NextProcess]_vars

\* ------------------------------------------------------------ properties

Terminal == {CANCELED, CRASHED, STOPPED, FAILED, SUCCEEDED}

StrictlyIncreasing(h) == \A i \in 1..(Len(h) - 1) : h[i] < h[i + 1]

IsPrefix(a, b) == Len(a) <= Len(b) /\ \A i \in 1..Len(a) : a[i] = b[i]

\* C1: the successive values of every program's state are strictly
\* increasing in the order of the enum, whatever kill() calls interleave
\* with the execution task.
C1_StateMonotonic == \A p \in Progs : StrictlyIncreasing(hist[p])

\* C2: when kill() was called at state WAITING (the state became CANCELING),
\* the program never becomes STARTING or RUNNING afterwards and no child is
\* spawned.
C2_NoStartAfterCancel ==
    \A p \in Progs : \A i \in 1..Len(hist[p]) :
        hist[p][i] = CANCELING =>
            /\ \A j \in (i + 1)..Len(hist[p]) : hist[p][j] \notin {STARTING, RUNNING}
            /\ process[p] = "none"

\* the program was sent exactly one kill(), while its task was blocked in
\* wait(startup_delay)
KilledOnceInDelay(p) == Len(killed[p]) = 1 /\ killed[p][1].in_wait

CancelPath == <<INIT, WAITING, CANCELING, CANCELED>>

\* C3: a program with a startup delay that is interrupted or terminated
\* before the delay elapses goes INIT, WAITING, CANCELING, CANCELED and
\* nowhere else: on_cancel fires once, join_wait returns CANCELED and no
\* child is forked.
C3_CancelDuringDelay ==
    \A p \in Progs : KilledOnceInDelay(p) =>
        /\ delay[p]
        /\ IsPrefix(hist[p], CancelPath)
        /\ process[p] = "none"
        /\ pc[p] \in {"waiting", "cancel", "done"}
        /\ pc[p] = "done" =>
              /\ hist[p] = CancelPath
              /\ events[p] = [cb \in Callbacks |-> IF cb = "on_cancel" THEN 1 ELSE 0]
        /\ (jw[p].returned /\ ~jw[p].timed_out) => jw[p].ret = CANCELED

C3_Witness ==
    /\ KilledOnceInDelay(Main)
    /\ pc[Main] = "done"
    /\ state[Main] = CANCELED
    /\ jw[Main] = [returned |-> TRUE, ret |-> CANCELED, timed_out |-> FALSE]

\* C4: once a program's state is terminal no step changes it again, and no
\* further signal is sent for the program.
C4_TerminalIsFinal ==
    [][\A p \in Progs : state[p] \in Terminal => (state'[p] = state[p] /\ sent'[p] = sent[p])]_vars

C4_Witness ==
    \E i \in 1..Len(killed[Main]) : killed[Main][i].at \in Terminal

\* C5 as stated: whatever the timeout argument, join_wait returns a terminal
\* state.
C5_JoinWaitAlwaysTerminal ==
    \A p \in Progs : jw[p].returned => jw[p].ret \in Terminal

\* C5 amended: join_wait returns a terminal state whenever it does not time
\* out (no timeout given, or the predicate was met before a finite timeout
\* expired).
C5_JoinWaitTerminalUnlessTimeout ==
    \A p \in Progs : (jw[p].returned /\ ~jw[p].timed_out) => jw[p].ret \in Terminal

C5_Witness ==
    /\ jw[Main].returned
    /\ jw[Main].ret \in Terminal
    /\ ~jw[Main].timed_out

\* the elements of a sequence
Range(seq) == {seq[i] : i \in 1..Len(seq)}

IsHelper(p) == p \in Helpers

\* the helpers in the order they were started, resp. sent a stop request
HelperStarts == SelectSeq(startOrder, IsHelper)
HelperStops == SelectSeq(stopOrder, IsHelper)

\* C6: run() starts the helpers in declaration order and sends them their
\* stop requests in exactly the reverse order.
C6_StopReversesStart ==
    /\ IsPrefix(HelperStarts, helpers)
    /\ IsPrefix(HelperStops, reversed(helpers))
    /\ HelperStops # <<>> => HelperStarts = helpers
    /\ opc = "done" => HelperStops = reversed(HelperStarts)

C6_Witness ==
    /\ opc = "done"
    /\ Len(HelperStops) = NHelpers
    /\ NHelpers >= 2

\* C7: in run() main is started only after start() of every helper has
\* returned, no helper is sent a stop request before main.join_wait() has
\* returned a terminal state, and when run() returns main is terminal and
\* every helper has been sent a stop request.
C7_RunPhases ==
    /\ Main \in Range(startOrder) => \A h \in Helpers : startRet[h] # "none"
    /\ stopOrder # <<>> =>
          /\ jw[Main].returned
          /\ jw[Main].ret \in Terminal
          /\ state[Main] \in Terminal
    /\ opc = "done" =>
          /\ state[Main] \in Terminal
          /\ \A h \in Helpers : h \in Range(stopOrder) /\ killed[h] # <<>>

C7_Witness ==
    /\ opc = "done"
    /\ op = "run"
    /\ state[Main] = SUCCEEDED
    /\ \A h \in Helpers : killed[h] # <<>>

AllRunningAtTerminate ==
    /\ opc = "kill_main"
    /\ op = "terminate"
    /\ \A p \in Progs : state[p] = RUNNING

AllStopped ==
    \A p \in Progs :
        /\ state[p] = STOPPED
        /\ events[p] = [cb \in Callbacks |-> IF cb = "on_stopped" THEN 1 ELSE 0]

\* C9: terminate() signals main first and then the helpers in reverse
\* declaration order; called when main and all helpers are RUNNING, with
\* children that exit with a nonzero code on SIGTERM, it leads to every
\* program being STOPPED with on_stopped fired exactly once.
C9_TerminateStopsAll ==
    /\ [](IsPrefix(stopOrder, <<Main>> \o reversed(helpers)))
    /\ [](\A p \in Progs : events[p]["on_stopped"] <= 1)
    /\ AllRunningAtTerminate ~> AllStopped

C9_Witness ==
    /\ op = "terminate"
    /\ stopOrder = <<Main>> \o reversed(helpers)
    /\ \A p \in Progs : Len(killed[p]) = 1 /\ killed[p][1].at = RUNNING
    /\ AllStopped

AllSent(p, sig) == \A i \in 1..Len(sent[p]) : sent[p][i] = sig

\* C10 as stated: interrupt() has SIGINT sent to main and to the helpers,
\* terminate() has SIGTERM sent to main and to the helpers.
C10_SignalOfOperation ==
    /\ op = "interrupt" => \A p \in Progs : AllSent(p, SIGINT)
    /\ op = "terminate" => \A p \in Progs : AllSent(p, SIGTERM)

\* C10 amended: interrupt() has SIGINT sent to main and SIGTERM to the
\* helpers, terminate() has SIGTERM sent to main and to the helpers; a program
\* that was RUNNING when it was asked to stop has been sent the signal.
C10_HelpersAlwaysTerminated ==
    /\ op = "interrupt" => AllSent(Main, SIGINT)
    /\ op = "terminate" => AllSent(Main, SIGTERM)
    /\ \A h \in Helpers : AllSent(h, SIGTERM)
    /\ \A p \in Progs :
          (\E i \in 1..Len(killed[p]) : killed[p][i].at = RUNNING) => sent[p] # <<>>

C10_Witness ==
    /\ op = "interrupt"
    /\ sent[Main] = <<SIGINT>>
    /\ \A h \in Helpers : sent[h] = <<SIGTERM>>

\* the last n elements of a sequence
Last(seq, n) == SubSeq(seq, Len(seq) - n + 1, Len(seq))

OnlyFired(p, cb) == events[p] = [c \in Callbacks |-> IF c = cb THEN 1 ELSE 0]

\* C11: a kill() that finds the program RUNNING sets STOPPING and sends its
\* signal to the child; if the child was still alive and then exits with a
\* nonzero code, the program ends in STOPPED through RUNNING, STOPPING,
\* STOPPED with on_stopped as the only callback, whichever signal it was.
C11_StopRunning ==
    \A i \in 1..Len(killed[Main]) :
        killed[Main][i].at = RUNNING =>
            /\ \E j \in 1..(Len(hist[Main]) - 1) :
                  hist[Main][j] = RUNNING /\ hist[Main][j + 1] = STOPPING
            /\ \E j \in 1..Len(sent[Main]) : sent[Main][j] = killed[Main][i].sig
            /\ killed[Main][i].alive =>
                  /\ \E j \in 1..Len(recv[Main]) : recv[Main][j] = killed[Main][i].sig
                  /\ state[Main] \in {STOPPING, STOPPED, SUCCEEDED}
                  /\ state[Main] = SUCCEEDED => rc[Main] = 0
                  /\ (pc[Main] = "done" /\ rc[Main] # 0) =>
                        /\ state[Main] = STOPPED
                        /\ Last(hist[Main], 3) = <<RUNNING, STOPPING, STOPPED>>
                        /\ OnlyFired(Main, "on_stopped")

C11_Witness ==
    /\ pc[Main] = "done"
    /\ Len(killed[Main]) = 1
    /\ killed[Main][1].at = RUNNING
    /\ killed[Main][1].alive
    /\ killed[Main][1].sig = SIGINT
    /\ recv[Main] = <<SIGINT>>
    /\ rc[Main] # 0
    /\ state[Main] = STOPPED
    /\ OnlyFired(Main, "on_stopped")

\* Popen was attempted for p and raised
SpawnFailed(p) ==
    /\ ~cmdok[p]
    /\ pc[p] \in {"crash", "done"}
    /\ \E j \in 1..Len(hist[p]) : hist[p][j] = STARTING

Undisturbed(p) == ~delay[p] /\ killed[p] = <<>>

\* C12 as stated: when spawning the child fails, the state sequence is INIT,
\* STARTING, CRASHED, there is no child, on_crash is the only callback, and
\* start() and join() return CRASHED (here: even in the executions in which
\* interrupt() and terminate() are never called and no timeout elapses).
C12_CrashSequence ==
    (SpawnFailed(Main) /\ pc[Main] = "done" /\ killed[Main] = <<>>) =>
        /\ hist[Main] = <<INIT, STARTING, CRASHED>>
        /\ process[Main] = "none"
        /\ OnlyFired(Main, "on_crash")
        /\ (waited[Main].call # "none" /\ ~waited[Main].timed_out) => waited[Main].ret = CRASHED

\* C12 amended: when spawning the child fails, the program never enters
\* RUNNING, has no child, fires on_crash once and nothing else, and ends in
\* CRASHED; without startup delay and without interrupt()/terminate() the
\* state sequence is INIT, STARTING, CRASHED and start() and join() return
\* CRASHED unless their timeout elapses; with a startup delay WAITING comes
\* before STARTING.
C12_CrashNeverRuns ==
    SpawnFailed(Main) =>
        /\ process[Main] = "none"
        /\ \A j \in 1..Len(hist[Main]) : hist[Main][j] # RUNNING
        /\ pc[Main] = "done" =>
              /\ state[Main] = CRASHED
              /\ OnlyFired(Main, "on_crash")
              /\ killed[Main] = <<>> =>
                    hist[Main] = IF delay[Main] THEN <<INIT, WAITING, STARTING, CRASHED>>
                                                ELSE <<INIT, STARTING, CRASHED>>
        /\ (Undisturbed(Main) /\ waited[Main].call # "none" /\ ~waited[Main].timed_out) =>
              waited[Main].ret = CRASHED

C12_Witness ==
    /\ SpawnFailed(Main)
    /\ Undisturbed(Main)
    /\ pc[Main] = "done"
    /\ hist[Main] = <<INIT, STARTING, CRASHED>>
    /\ waited[Main] = [call |-> "start", ret |-> CRASHED, timed_out |-> FALSE]

\* C13: a program in FAILED has a nonzero exit code and was in RUNNING
\* immediately before FAILED, whatever kill calls ran concurrently with
\* handle_exit.
C13_FailedFromRunning ==
    state[Main] = FAILED =>
        /\ rc[Main] # 0
        /\ Last(hist[Main], 2) = <<RUNNING, FAILED>>

\* C14: a program in SUCCEEDED has spawned a child that exited with code 0;
\* it did not crash before exec and was not cancelled, and on_exit is the
\* only callback that fired.
C14_SucceededMeansZero ==
    state[Main] = SUCCEEDED =>
        /\ cmdok[Main]
        /\ process[Main] = "exited"
        /\ rc[Main] = 0
        /\ pc[Main] = "done"
        /\ OnlyFired(Main, "on_exit")
        /\ \A j \in 1..Len(hist[Main]) : hist[Main][j] \notin {CANCELED, CRASHED, STOPPED, FAILED}

C14_Witness ==
    /\ state[Main] = SUCCEEDED
    /\ rc[Main] = 0
    /\ process[Main] = "exited"
    /\ hist[Main] = <<INIT, WAITING, STARTING, RUNNING, STOPPING, SUCCEEDED>>

\* the state and the callback the description of handle_exit gives for an
\* exit code and a prior state
ExpectedState(code, prior) ==
    IF code = 0 THEN SUCCEEDED
    ELSE IF prior = RUNNING THEN FAILED
    ELSE IF prior = STOPPING THEN STOPPED
    ELSE CRASHED

ExpectedCallback(code, prior) ==
    IF code = 0 \/ prior = RUNNING THEN "on_exit"
    ELSE IF prior = STOPPING THEN "on_stopped"
    ELSE "on_crash"

\* C15: handle_exit called with exit code c in prior state s leaves the state
\* SUCCEEDED if c = 0, else FAILED if s = RUNNING, else STOPPED if s =
\* STOPPING, else CRASHED, and fires exactly one callback: on_exit in the
\* first two cases, on_stopped in the third, on_crash in the last.
C15_HandleExitTable ==
    pc[Main] = "done" =>
        /\ state[Main] = ExpectedState(rc[Main], hist[Main][1])
        /\ OnlyFired(Main, ExpectedCallback(rc[Main], hist[Main][1]))

C15_Witness ==
    /\ pc[Main] = "done"
    /\ rc[Main] = 2
    /\ hist[Main] = <<WAITING, CRASHED>>
    /\ OnlyFired(Main, "on_crash")

\* C16: kill is idempotent after the first call: a kill that finds the
\* program in CANCELING, STOPPING or a terminal state leaves the state as it
\* is and sends no signal, so at most one signal is ever sent to and received
\* by the child.
C16_KillIdempotent ==
    /\ Len(sent[Main]) <= 1
    /\ Len(recv[Main]) <= 1
    /\ \A j \in 1..(Len(hist[Main]) - 1) :
          hist[Main][j] = CANCELING => hist[Main][j + 1] # STOPPING

\* C17: execute_and_log returns (or lets the exception through) only after
\* wait_close has returned for every log stream it attached, each because
\* the stream was closed or because the wait time was over; a spawned child
\* has its stderr stream attached, and its stdout stream when stdout is logged.
C17_ExitAfterLogStreams ==
    xpc \in {"returned", "raised"} =>
        /\ \A i \in 1..Len(streams) :
              /\ wclose[streams[i]] \in {"closed", "timeout"}
              /\ wclose[streams[i]] = "closed" => streams[i] \in pclosed
        /\ xcfg.ok => streams = IF xcfg.log_stdout THEN <<"stderr", "stdout">> ELSE <<"stderr">>
        /\ ~xcfg.ok => streams = <<>>

C17_Witness ==
    /\ xpc = "raised"
    /\ xcfg.exec_raises
    /\ streams = <<"stderr", "stdout">>
    /\ wclose["stderr"] = "closed"
    /\ wclose["stdout"] = "timeout"

\* the positions of the line terminators of a stream
Terminators(bytes) == {i \in 1..Len(bytes) : bytes[i] = "LF"}

\* the number of lines of a stream: one per terminator, and one more when
\* bytes follow the last terminator
NumLines(bytes) ==
    Cardinality(Terminators(bytes)) +
        (IF bytes # <<>> /\ bytes[Len(bytes)] # "LF" THEN 1 ELSE 0)

\* the n-th line of a stream, terminator included
Line(bytes, n) ==
    LET ends == Terminators(bytes) \cup {Len(bytes)}
        before == {i \in ends : Cardinality({j \in ends : j <= i}) < n}
        last == CHOOSE i \in ends : Cardinality({j \in ends : j <= i}) = n
    IN SubSeq(bytes, Len(bytes) - Cardinality({i \in 1..Len(bytes) : \A j \in before : j < i}) + 1, last)

\* a line without the trailing CR, LF, TAB and SP
Text(line) ==
    LET keep == {i \in 1..Len(line) : line[i] \notin Stripped}
        n == IF keep = {} THEN 0 ELSE CHOOSE i \in keep : \A j \in keep : j <= i
    IN SubSeq(line, 1, n)

\* C18: when the stream has ended cleanly, the log stream has emitted exactly
\* one record per line (terminated lines, and a non-empty unterminated last
\* line), in stream order, each at the stream's level and, for a decodable
\* line, with the line's text without trailing CR, LF, TAB and SP.
C18_OneRecordPerLine ==
    lpc = "closed" =>
        /\ Len(records) = NumLines(input)
        /\ \A n \in 1..Len(records) :
              /\ records[n].level = level
              /\ ~undecodable(Line(input, n)) => records[n].msg = Text(Line(input, n))

\* C19: a line that cannot be decoded is logged as its bytes at ERROR and the
\* log stream goes on: when it has ended, every line of the stream has its
\* record, the undecodable ones at ERROR, the others with their text.
C19_UndecodableLineLogged ==
    (lpc = "closed" /\ undecodable(input)) =>
        /\ Len(records) >= NumLines(input)
        /\ \A n \in 1..NumLines(input) :
              IF undecodable(Line(input, n))
              THEN records[n].level = "ERROR"
              ELSE records[n].msg = Text(Line(input, n))

\* the exit code of main, or 71 when it is not known
MainOrUnknown == IF bcfg.main_rc = <<>> THEN 71 ELSE bcfg.main_rc[1]

Received == {hooks[i] : i \in 1 .. Len(hooks)}

\* every plugin received the hook for every configured extension
AllReceived(hook) ==
    \A n \in 1 .. Len(exts) : \A k \in Plugins :
        [hook |-> hook, name |-> n, plugin |-> k] \in Received

\* the bootstrap is in dry-run mode: the loaded configuration, with
\* ENCAB_DRY_RUN applied, has dry_run set
DryRunMode == dry = <<TRUE>>

\* what a dry run never does, whatever its end
DryRunFrame ==
    /\ \A c \in Received : c.hook # "configure_extension"
    /\ did = {}
    /\ boot \notin {"set_user", "programs", "run", "ended", "halted"}

Raising == {n \in 1 .. Len(exts) : exts[n] # 0}

\* the hook calls set_up_extensions has made, once it has run
ExtensionCalls == {c \in Received : c.name >= 1}

FirstExisting ==
    LET first == CHOOSE i \in 1 .. Len(ENCAB_FILE_CANDIDATES) :
                     /\ ENCAB_FILE_CANDIDATES[i] \in files
                     /\ \A j \in 1 .. i - 1 : ENCAB_FILE_CANDIDATES[j] \notin files
    IN  ENCAB_FILE_CANDIDATES[first]

\* load_config has returned
Loaded == boot = "logger"

\* C22: load_config takes the stream argument if given; else the path in
\* ENCAB_CONFIG if set; else the first existing file of ./encab.yml,
\* ./encab.yaml, /etc/encab.yml, /etc/encab.yaml; if none exists it fails
\* with a file-not-found error
C22_SourcePrecedence ==
    /\ Loaded /\ encab_stream => location.file = "stream"
    /\ Loaded /\ ~encab_stream /\ environ.ENCAB_CONFIG \notin {"unset", ""} =>
           location.file = environ.ENCAB_CONFIG
    /\ Loaded /\ ~encab_stream /\ environ.ENCAB_CONFIG = "unset" =>
           files # {} /\ location.file = FirstExisting
    /\ boot # "load" /\ ~encab_stream /\ environ.ENCAB_CONFIG = "unset" /\ files = {} =>
           boot = "exited" /\ cause = "FileNotFoundError"

\* the last of several default locations that exist is the one loaded
C22_LastExistingLoaded ==
    /\ Loaded
    /\ ~encab_stream
    /\ environ.ENCAB_CONFIG = "unset"
    /\ files = {"./encab.yml", "/etc/encab.yaml"}
    /\ location = [file |-> "/etc/encab.yaml", source |-> "Default location"]

\* the configurations declared under other names than main, in their order
DeclaredHelpers == SelectSeq(program_configs, LAMBDA c : c.name # "main")

\* the configuration declared under the name main, if there is one
DeclaredMain == SelectSeq(program_configs, LAMBDA c : c.name = "main")

\* C23: the program named main is the main program and executes the command
\* line arguments, if there are any, instead of its configured command or sh
\* script; without a declared main, a main running the arguments is
\* synthesised; with neither, construction fails with a configuration error;
\* all other programs become helpers in declaration order
C23_MainSelection ==
    programs.built # "no" =>
        /\ DeclaredMain = <<>> /\ args = <<>> <=> programs.built = "ConfigError"
        /\ programs.built = "ok" =>
            /\ Len(programs.main) = 1
            /\ programs.main[1].name = "main"
            /\ programs.main[1].command =
                   IF args # <<>> THEN args ELSE DeclaredMain[1].command
            /\ DeclaredMain # <<>> /\ args = <<>> => programs.main[1].config = DeclaredMain[1]
            /\ Len(programs.helpers) = Len(DeclaredHelpers)
            /\ \A i \in 1 .. Len(DeclaredHelpers) :
                   /\ programs.helpers[i].name = DeclaredHelpers[i].name
                   /\ programs.helpers[i].command = DeclaredHelpers[i].command
                   /\ programs.helpers[i].config = DeclaredHelpers[i]

C23_Witness ==
    /\ programs.built = "ok"
    /\ args = <<"echo", "Custom Main">>
    /\ Len(program_configs) = 3
    /\ program_configs[2].name = "main"
    /\ program_configs[2].command = <<>>
    /\ program_configs[2].sh = "echo Main"
    /\ programs.main[1].command = args
    /\ Len(programs.helpers) = 2
    /\ programs.helpers[1].name = program_configs[1].name

\* environment c overlaid by d, d taking precedence on common keys
Overlaid(c, d) == [k \in EnvKeys |-> IF d[k] # "-" THEN d[k] ELSE c[k]]

\* the environment of context c
EnvironmentOf(c) == heap[ctx[c].environment]

\* C24: C.extend(D).environment is C.environment overlaid by D, D taking
\* precedence on common keys, and C.environment is unchanged by the call; an
\* absent or empty overlay yields an equal copy
C24_ExtendMerges ==
    called.op = "extend" =>
        /\ EnvironmentOf(called.child) = Overlaid(called.before, or_empty(called.overlay))
        /\ or_empty(called.overlay) = [k \in EnvKeys |-> "-"] =>
               EnvironmentOf(called.child) = called.before
        /\ EnvironmentOf(called.parent) = called.before

C24_Witness ==
    /\ called.op = "extend"
    /\ called.before = [k \in EnvKeys |-> "1"]
    /\ called.overlay = <<[k \in EnvKeys |-> IF k = "X" THEN "2" ELSE "-"]>>
    /\ EnvironmentOf(called.child) = [k \in EnvKeys |-> IF k = "X" THEN "2" ELSE "1"]

\* the contexts of the programs: those spawned from the root context
ProgramContexts == {c \in 1 .. Len(ctx) : ctx[c].op = "spawn" /\ ctx[c].parent = 1}

\* C25: the environment a program is executed with is the root context's
\* environment overlaid only by the program's own environment: no variable of
\* another program's overlay appears in it, and neither spawning a context
\* nor changing the environment of a context in place changes the
\* environment of the root context or of a sibling
C25_EnvironmentIsolation ==
    \A c \in 1 .. Len(ctx) : c \notin Range(mutated) =>
        /\ EnvironmentOf(c) = Overlaid(ctx[c].inherited, ctx[c].overlay)
        /\ \A d \in ProgramContexts \ {c} : \A k \in EnvKeys :
               c \in ProgramContexts /\ ctx[d].overlay[k] # "-"
               /\ EnvironmentOf(c)[k] = ctx[d].overlay[k] =>
                   ctx[d].overlay[k] \in {ctx[c].overlay[k], ctx[c].inherited[k]}

C25_Witness ==
    /\ Len(ctx) = 3
    /\ ProgramContexts = {2, 3}
    /\ ctx[2].overlay = [k \in EnvKeys |-> IF k = "Y" THEN "2" ELSE "-"]
    /\ ctx[3].overlay = [k \in EnvKeys |-> "-"]
    /\ mutated = <<2>>
    /\ EnvironmentOf(2)["X"] = "3"
    /\ EnvironmentOf(1) = [k \in EnvKeys |-> IF k = "X" THEN "1" ELSE "-"]
    /\ EnvironmentOf(3) = EnvironmentOf(1)

\* C26: if the wait call reports that there are no children before the
\* launched pid has been reaped, the reap loop returns the exit code 71
\* (EX_NOCHILD) as a value rather than raising or blocking
C26_NoChildReturns71 ==
    rret.nochild => rpc = "returned" /\ rret.value = <<EX_NOCHILD>> /\ rret.raised = "none"

\* the wait call finds no child left and the loop ends with the exception
C26_NoChildRaises ==
    /\ rpc = "raised"
    /\ rret.raised = "ChildProcessError"
    /\ children[child_process_pid].st = "gone"

\* C27: the reap loop reaps every terminated child it is notified of without
\* ending and ends only when the launched pid has terminated (exited or
\* killed by a signal), returning that pid's status; neither a status change
\* of another pid nor a stop of the launched pid ends the loop
C27_ReturnsOnlyTargetStatus ==
    /\ rpc # "waiting" /\ ~rret.nochild =>
        /\ rpc = "returned"
        /\ children[child_process_pid].st = "reaped"
        /\ rret.value = <<IF children[child_process_pid].code = SIGTERM
                          THEN 0 - SIGTERM ELSE children[child_process_pid].code>>
    /\ \A p \in Pids \ {child_process_pid} : children[p].st = "reaped" => p \in reaped

\* the launched pid is stopped, not terminated, and the loop has ended
C27_StopEndsLoop ==
    /\ rpc = "raised"
    /\ rret.raised = "ValueError"
    /\ children[child_process_pid].st = "stopped_seen"

\* what an observer of the state of main has been returned
Observed == {jw[Main].ret, waited[Main].ret}

\* C28: a program with startup_delay = 0 never enters WAITING: wait(0)
\* returns without changing the state or calling the observer, the execution
\* task takes the state from INIT directly to STARTING, and no observer of
\* the state is ever returned WAITING
C28_NoWaitingWithoutDelay ==
    /\ [](~delay[Main] =>
            /\ state[Main] # WAITING
            /\ WAITING \notin Range(hist[Main])
            /\ WAITING \notin Observed
            /\ pc[Main] # "waiting")
    /\ [][~delay[Main] /\ pc[Main] = "wait" /\ pc'[Main] # "wait" =>
            /\ pc'[Main] = "set_starting"
            /\ state' = state /\ hist' = hist /\ events' = events]_vars
    /\ [][~delay[Main] /\ state[Main] = INIT /\ state'[Main] # INIT /\ killed' = killed =>
            state'[Main] = STARTING]_vars

C28_Witness ==
    /\ ~delay[Main]
    /\ hist[Main] = <<INIT, STARTING, RUNNING>>
    /\ killed[Main] = <<>>
    /\ waited[Main].call = "start"
    /\ waited[Main].ret = RUNNING

\* the helpers that ended in CRASHED
CrashedHelpers == {h \in Helpers : state[h] = CRASHED}

\* C29: a crash of a helper during run() does not stop the others: every
\* later helper and main are still started, no program is signalled before
\* main has ended, and run() waits for main and then stops the helpers in
\* reverse order
C29_HelperCrashContained ==
    CrashedHelpers # {} =>
        /\ IsPrefix(startOrder, helpers \o <<Main>>)
        /\ opc \in {"join_wait", "terminate", "join", "done"} =>
               startOrder = helpers \o <<Main>>
        /\ \A p \in Progs : killed[p] # <<>> \/ sent[p] # <<>> =>
               /\ p # Main
               /\ jw[Main].returned
               /\ jw[Main].ret \in Terminal
        /\ IsPrefix(stopOrder, stop_sequence)
        /\ opc = "done" => stopOrder = stop_sequence

C29_Witness ==
    /\ opc = "done"
    /\ state[1] = CRASHED
    /\ startOrder = helpers \o <<Main>>
    /\ state[Main] = SUCCEEDED
    /\ stopOrder = stop_sequence
    /\ \A h \in Helpers \ {1} : state[h] = STOPPED /\ sent[h] = <<SIGTERM>>

\* ---- programs_ended

\* the programs_ended calls the plugins received so far
ProgramsEndedCalls == {i \in 1 .. Len(hooks) : hooks[i].hook = "programs_ended"}

\* programs.run() returned and the supervisor halted, or exited with the exit
\* code of the programs
AfterRun == boot = "halted" \/ (boot = "exited" /\ cause = "ended")

\* C31 as stated: in every execution that is not a dry run, by the time the
\* supervisor exits or halts after the orchestrator's run has returned,
\* every registered plugin has received the programs_ended hook exactly
\* once, and none receives it before the run has returned
C31_ProgramsEndedDelivered ==
    /\ AfterRun => \A k \in Plugins :
           Cardinality({i \in ProgramsEndedCalls : hooks[i].plugin = k}) = 1
    /\ "run" \notin did => ProgramsEndedCalls = {}

\* a supervisor that exited after its programs had ended without any plugin
\* ever receiving programs_ended
C31_EndedWithoutHook ==
    /\ boot = "exited"
    /\ cause = "ended"
    /\ "run" \in did
    /\ dry = <<FALSE>>
    /\ ProgramsEndedCalls = {}

\* ---- configuration inheritance

\* the program configuration as it was created, the encab section, and the
\* program configuration after extend
Created == program_configs[1]
Section == encab_config[1]
Extended == extended[1].self

\* the fields of a program configuration that extend may set
Inheritable == DOMAIN Created \ {"name", "command", "sh", "_unsetFields"}

\* C32: after P.extend(E), every field that was None when P was created has
\* E's value if E has the field with a value other than None, every field
\* that was set when P was created has the value it had before extend, and E
\* is as it was
C32_FieldInheritance ==
    extended # <<>> =>
        /\ \A f \in Inheritable :
               IF f \in Created._unsetFields
               THEN f \in DOMAIN Section /\ Section[f] # None => Extended[f] = Section[f]
               ELSE Extended[f] = Created[f]
        /\ Extended.command = Created.command
        /\ extended[1].other = Section

\* a program that set its user and its log level and left environment,
\* umask and group out, extended by an encab section that sets all of them
C32_Witness ==
    /\ extended # <<>>
    /\ Created._unsetFields \cap Inheritable = {"environment", "umask", "group", "debug", "join_time", "startup_delay"}
    /\ Section._unsetFields = {"dry_run"}
    /\ Extended.user = [type |-> "str", repr |-> "www"]
    /\ Extended.group = [type |-> "str", repr |-> "staff"]
    /\ Extended.umask = [type |-> "int", repr |-> "63"]
    /\ Extended.environment = [type |-> "dict", repr |-> "{X: 1}"]
    /\ Extended.loglevel = [type |-> "str", repr |-> "ERROR"]
    /\ Extended.startup_delay = [type |-> "int", repr |-> "0"]

\* ---- users and groups of the programs

\* the programs of the orchestrator constructed
Constructed == {programs.main[i] : i \in 1 .. Len(programs.main)}
                   \cup {programs.helpers[i] : i \in 1 .. Len(programs.helpers)}

\* the value is absent or a numeric id
AbsentOrNumeric(v) == v = None \/ v.type = "int"

\* C33 as stated: once the orchestrator is constructed, the user and the
\* group of every program, declared or synthesised from the arguments, is
\* absent or a numeric id
C33_NumericUserAndGroup ==
    programs.built = "ok" =>
        \A p \in Constructed : AbsentOrNumeric(p.config.user) /\ AbsentOrNumeric(p.config.group)

\* the part of C33 that holds: the user of every program of a constructed
\* orchestrator is absent or a numeric id
C33_NumericUser ==
    programs.built = "ok" => \A p \in Constructed : AbsentOrNumeric(p.config.user)

\* an orchestrator constructed with a program whose user name was resolved
\* and whose group is still the name it declared
C33_GroupNameRemains ==
    /\ programs.built = "ok"
    /\ \E p \in Constructed :
        /\ p.config.user = [type |-> "int", repr |-> "33"]
        /\ p.config.group = [type |-> "str", repr |-> "staff"]

\* ---- stop_helpers: the joins

\* stop_helpers is joining helper h: join(join_time) of h has begun and has
\* not returned
Joining(h) == opc = "join" /\ oi = h

\* C34: in stop_helpers the join of a helper begins only after the helper
\* was sent its stop signal (terminate() was called on it); the joins are
\* made one at a time in reverse declaration order, the first for the helper
\* declared last, and the join of the next helper begins when the join of
\* the previous one returns
C34_JoinsFollowStops ==
    /\ [](\A h \in Progs : Joining(h) =>
            /\ IsHelper(h)
            /\ h \in Range(stopOrder)
            /\ killed[h] # <<>>)
    /\ [][opc # "join" /\ opc' = "join" => oi' = NHelpers]_vars
    /\ [][opc = "join" /\ (opc' # opc \/ oi' # oi) =>
            IF oi = 1 THEN opc' = "done" ELSE opc' = "join" /\ oi' = oi - 1]_vars

\* stop_helpers returned after a join that timed out: the helper declared
\* first was joined last and is still on its way to a terminal state
C34_Witness ==
    /\ opc = "done"
    /\ op = "interrupt"
    /\ timeouts = 1
    /\ state[1] = STOPPING
    /\ state[NHelpers] = STOPPED
    /\ stopOrder = <<Main>> \o [i \in 1 .. NHelpers |-> NHelpers + 1 - i]

\* ---- kill before the child exists

\* kill was called on p in INIT or STARTING while no child was alive, and
\* has returned
KilledBeforeSpawn(p) ==
    \E i \in 1 .. Len(killed[p]) :
        /\ killed[p][i].at \in {INIT, STARTING}
        /\ ~killed[p][i].alive

\* p is RUNNING with a child that was delivered no signal
RunningUnsignalled(p) ==
    /\ state[p] = RUNNING
    /\ process[p] = "alive"
    /\ recv[p] = <<>>

\* C35 as stated (its safety part): once interrupt() or terminate() was
\* called on a program in INIT or STARTING, before the pid of its child was
\* known, the program is never RUNNING with a child that was not delivered
\* the stop signal
C35_KillBeforeSpawnEffective ==
    \A p \in Progs : KilledBeforeSpawn(p) => ~RunningUnsignalled(p)

\* terminate() was called once, in INIT, and the program is RUNNING a
\* long-running child that nothing was sent to: it stays RUNNING
C35_RunningAfterKill ==
    /\ Len(killed[Main]) = 1
    /\ killed[Main][1].at = INIT
    /\ killed[Main][1].sig = SIGTERM
    /\ hist[Main] = <<INIT, STOPPING, STARTING, RUNNING>>
    /\ kind[Main] = "sleep"
    /\ sent[Main] = <<>>
    /\ RunningUnsignalled(Main)

\* ---- the pre-exec phase

\* the uid the process is created with is set and is the supervisor's own
SameUid == proc.user # None /\ proc.user.repr = getuid

\* the supervisor may set the group the process is created with, if any
GroupPermitted == falsy(proc.group) \/ getuid = "0" \/ proc.group.repr = getuid

\* C36 as stated: when the configured uid is set and equals the
\* supervisor's own uid, the pre-exec phase makes neither the initgroups nor
\* the setuid call and completes, the gid and umask steps applied as
\* configured, so that Popen returns with the child running; initgroups and
\* setuid are called only when the configured uid differs
C36_SameUidCompletes ==
    /\ ppc \notin {"none", "created"} /\ SameUid /\ GroupPermitted =>
        /\ ppc # "raised"
        /\ praise = "none"
        /\ preexec = (IF falsy(proc.group) THEN <<>> ELSE <<"setgid">>)
                     \o (IF falsy(proc.umask) \/ proc.umask.repr = "-1" THEN <<>> ELSE <<"umask">>)
    /\ {"initgroups", "setuid"} \cap Range(preexec) # {} =>
        proc.user # None /\ proc.user.repr # getuid

\* a supervisor of uid 1000 executing a process with user 1000 and no
\* group: Popen raised and no child runs the command
C36_SameUidCrashes ==
    /\ ppc = "raised"
    /\ praise = "SubprocessError"
    /\ getuid = "1000"
    /\ proc.user = [type |-> "int", repr |-> "1000"]
    /\ proc.group = None
    /\ preexec = <<>>
    /\ self_process = <<>>

\* ---- pid() and signal()

\* C37 as stated: pid() returns the pid of the child while the child is
\* running and None before execute and after the child has terminated and
\* been waited for; signal(), kill() and terminate() make no os.kill call
\* once the child has terminated and been waited for
C37_PidOnlyWhileRunning ==
    /\ \A i \in 1 .. Len(pidret) :
           /\ pidret[i].at = "running" => pidret[i].value = <<ChildPid>>
           /\ pidret[i].at \in {"created", "raised", "waited"} => pidret[i].value = <<>>
    /\ \A i \in 1 .. Len(oskill) : oskill[i].at # "waited"

\* the part of C37 that holds: before execute has spawned the child, and
\* when it failed to, pid() returns None and signal() calls nothing; while
\* the child runs pid() returns its pid
C37_NoPidBeforeChild ==
    /\ \A i \in 1 .. Len(pidret) :
           /\ pidret[i].at \in {"created", "raised"} => pidret[i].value = <<>>
           /\ pidret[i].at = "running" => pidret[i].value = <<ChildPid>>
    /\ \A i \in 1 .. Len(oskill) : oskill[i].at \notin {"created", "raised"}

\* the child has terminated and was waited for: pid() still returns its pid
\* and terminate() called os.kill with it
C37_PidAfterWait ==
    /\ ppc = "waited"
    /\ pidret = <<[at |-> "waited", value |-> <<ChildPid>>]>>
    /\ oskill = <<[pid |-> ChildPid, signal |-> SIGTERM, at |-> "waited"]>>

\* ---- terminate(), interrupt() and stop_helpers return

\* C38: terminate() and interrupt(), and stop_helpers within them, always
\* return, whatever the helpers and their children do: once called they
\* reach their end; every helper is sent SIGTERM at most once and nothing
\* else, and is joined with a timeout, after which it is left as it is
C38_StopAlwaysReturns ==
    /\ (opc = "kill_main") ~> (opc = "done")
    /\ [](\A h \in Helpers : Len(sent[h]) <= 1 /\ Range(sent[h]) \subseteq {SIGTERM})

\* terminate() returned although no helper reached a terminal state: their
\* children were sent SIGTERM and are still alive
C38_Witness ==
    /\ opc = "done"
    /\ op = "terminate"
    /\ \A h \in Helpers :
        /\ state[h] = STOPPING
        /\ process[h] = "alive"
        /\ sent[h] = <<SIGTERM>>

\* the stream's thread was started
Started == \E i \in 1..Len(streams) : streams[i] = "stderr"

\* the stream's _closed event is set
ClosedEventSet == "stderr" \in pclosed

\* the lines the pump has taken from its stream so far
LinesRead == NumLines(SubSeq(input, 1, pos))

\* the records the pump has emitted for lines of its stream
LinesEmitted == SelectSeq(records, LAMBDA r : r.msg # SomethingWentWrong)

\* wait_close returns in this step
WaitCloseReturns == wclose'["stderr"] # wclose["stderr"]

\* C39 as stated: the closed event of a started log stream is set exactly
\* when the pump has stopped reading, on each of its exit paths, and never
\* before every line it read was emitted; a wait_close that returns once the
\* event is set has not waited for its timeout, and a wait_close on a stream
\* that was never started returns at once.
C39_ClosedWhenPumpStops ==
    /\ [](ClosedEventSet <=> lpc \in {"closed", "died"})
    /\ []((ClosedEventSet /\ lpc = "closed") => Len(LinesEmitted) = LinesRead)
    /\ [][WaitCloseReturns =>
            /\ ClosedEventSet => wclose'["stderr"] = "closed"
            /\ ~Started => wclose'["stderr"] = "unstarted"]_vars

\* the pump died of a read error with its event set, and wait_close found
\* the event set
C39_ClosedAfterReadError ==
    /\ lpc = "died"
    /\ ClosedEventSet
    /\ wclose["stderr"] = "closed"
    /\ LinesEmitted = records
    /\ records # <<>>

\* the caller is inside wait_for, waiting on the condition or just woken
InWaitFor(w) == wpc[w] \in {"blocked", "notified"}

\* no thread sleeps on the condition while its predicate holds: each change
\* of the state has woken every thread that was waiting
Published == \A w \in Waiters : wpc[w] = "blocked" => ~condition(w, state[Main])

\* a return of wait_for that did not time out returned a state satisfying
\* the caller's predicate
ReturnedStateSatisfies ==
    (wret.caller # "none" /\ ~wret.timed_out) => condition(wret.caller, wret.ret)

\* the execution task blocked in wait() leaves it once the state is canceled
WaitReleased == (pc[Main] = "waiting" /\ canceled(state[Main])) ~> (pc[Main] # "waiting")

\* C40 as stated: every change of the state wakes all threads blocked in
\* wait_for; a waiter whose predicate holds in the new state is eventually
\* released; a wait_for that returns without timing out returns a state
\* that satisfies the predicate, whatever set and kill do meanwhile.
C40_WaiterReleasedWhenPredicateHolds ==
    /\ []Published
    /\ \A w \in Waiters : (InWaitFor(w) /\ condition(w, state[Main])) ~> (wpc[w] = "returned")
    /\ WaitReleased
    /\ []ReturnedStateSatisfies

\* C40 amended: every change of the state wakes all threads blocked in
\* wait_for; a woken waiter is released when its predicate still holds once
\* it has the lock again, so a waiter whose predicate holds is eventually
\* released or the state has moved on to one that does not satisfy it, and
\* every waiter is eventually released once the program is in a final state;
\* a wait_for that returns without timing out returns a state that
\* satisfies the predicate, whatever set and kill do meanwhile.
C40_WaiterReleasedUnlessStateMovesOn ==
    /\ []Published
    /\ \A w \in Waiters :
          (InWaitFor(w) /\ condition(w, state[Main]))
              ~> (wpc[w] = "returned" \/ ~condition(w, state[Main]))
    /\ \A w \in Waiters : (InWaitFor(w) /\ state[Main] >= CANCELED) ~> (wpc[w] = "returned")
    /\ WaitReleased
    /\ []ReturnedStateSatisfies

\* a kill has ended the program: join_wait was released with the final
\* state while join, woken by the same change, has yet to take the lock
C40_Witness ==
    /\ killed[Main] # <<>>
    /\ state[Main] >= CANCELED
    /\ wpc["join_wait"] = "returned"
    /\ wret = [caller |-> "join_wait", ret |-> state[Main], timed_out |-> FALSE]
    /\ wpc["join"] = "notified"
    /\ wpc["wait_for_startup"] = "returned"

====
